---------------------------- MODULE Spec2Model ----------------------------
(***************************************************************************)
(* Carriage-Stabilization: model of the control pipeline.                  *)
(*                                                                         *)
(*   flc/fuzzifier.py, flc/rule_engine.py, flc/defuzzifier.py,             *)
(*   flc/controller.py      the fuzzy inference (pure functions)           *)
(*   hardware/pwm_driver.py DualPWMController (set_speed, stop)            *)
(*   hardware/imu_driver.py IMU_Driver (read_normalized)                   *)
(*   main.py                main_control_loop and the signal handler       *)
(*                                                                         *)
(* Numbers.  The code computes in floats; the model computes in fixed      *)
(* point.  Normalised quantities (theta_n, omega_n, membership degrees,    *)
(* W, Z, u) are integers in units of 1/ONE, so 1.0 is ONE and the          *)
(* defuzzifier's guard 0.0001 is exactly 1.  A command handed to the PWM   *)
(* driver is in units of 1/UNANO, so that values below 1e-6 exist.         *)
(* Angles are in milliradians, raw IMU values in LSB, time in ms.          *)
(* Quotients are rounded to the nearest unit (Div); int() is TruncDiv.     *)
(***************************************************************************)
EXTENDS Integers, Sequences, FiniteSets, TLC

ONE == 10000
UNANO == 1000000000
PWM_FULL == 1000000

(* ------------------------------ bounds --------------------------------- *)
MaxRuleOutputs == 2
MaxSleepIncrements == 2
MaxReads == 3

\* calls made on one MPU6050Driver
MaxMpuOps == 3

\* simulator steps between two resets
MaxSimSteps == 4

(* ------------------------------ helpers -------------------------------- *)
Abs(x) == IF x < 0 THEN -x ELSE x

Min(a, b) == IF a <= b THEN a ELSE b

Max(a, b) == IF a >= b THEN a ELSE b

\* int(x): truncation toward zero of n / d, d > 0
TruncDiv(n, d) == IF n >= 0 THEN n \div d ELSE -((-n) \div d)

\* n / d rounded to the nearest unit, d # 0
Div(n, d) ==
    LET s == IF (n < 0) = (d < 0) THEN 1 ELSE -1
        an == Abs(n)
        ad == Abs(d)
    IN  s * ((an + ad \div 2) \div ad)

Sign_pos(x) == IF x >= 0 THEN 1 ELSE -1

\* (x > 0) - (x < 0)
Sign(x) == IF x > 0 THEN 1 ELSE IF x < 0 THEN -1 ELSE 0

ClampNoop(x) == x

\* max(-1.0, min(1.0, x))
Clamp(x) == Max(-ONE, Min(ONE, x))

RECURSIVE SumSeq(_)
SumSeq(s) == IF s = <<>> THEN 0 ELSE Head(s) + SumSeq(Tail(s))

(* ------------------------- results of calls ---------------------------- *)
\* a call returns a value or raises: err is "none" or the exception's name
Ok(v) == [err |-> "none", val |-> v]

Raise(e, dflt) == [err |-> e, val |-> dflt]

(* ------------------------- flc/fuzzifier.py ---------------------------- *)
\* the checks of _triangle / _trapezoid / fuzzify that raise ValueError
params_ok(params) ==
    \/ /\ Len(params) = 3
       /\ params[1] <= params[2] /\ params[2] <= params[3]
    \/ /\ Len(params) = 4
       /\ params[1] <= params[2] /\ params[2] <= params[3]
       /\ params[3] <= params[4]

\* Fuzzifier._triangle, for ordered parameters
triangle(x, params) ==
    LET a == params[1]
        b == params[2]
        c == params[3]
    IN  IF x <= a \/ x >= c THEN 0
        ELSE IF a < x /\ x <= b
             THEN (IF b - a > 0 THEN Div((x - a) * ONE, b - a) ELSE ONE)
        ELSE IF b < x /\ x < c
             THEN (IF c - b > 0 THEN Div((c - x) * ONE, c - b) ELSE ONE)
        ELSE 0

\* Fuzzifier._trapezoid, for ordered parameters
trapezoid(x, params) ==
    LET a == params[1]
        b == params[2]
        c == params[3]
        d == params[4]
    IN  IF x <= a \/ x >= d THEN 0
        ELSE IF b <= x /\ x <= c THEN ONE
        ELSE IF a < x /\ x < b THEN Div((x - a) * ONE, b - a)
        ELSE IF c < x /\ x < d THEN Div((d - x) * ONE, d - c)
        ELSE 0

\* the degree of one set, by the length of its parameter list
degree_of(x, params) ==
    IF Len(params) = 3 THEN triangle(x, params) ELSE trapezoid(x, params)

fuzzify_keepzeros(mf, input_name, crisp_value) ==
    IF input_name \notin DOMAIN mf THEN Raise("KeyError", <<>>)
    ELSE LET sets == mf[input_name]
         IN  IF \E s \in DOMAIN sets : ~params_ok(sets[s])
             THEN Raise("ValueError", <<>>)
             ELSE Ok([s \in DOMAIN sets |-> degree_of(crisp_value, sets[s])])

\* Fuzzifier.fuzzify: the map of the sets with degree > 0, or the error raised
fuzzify(mf, input_name, crisp_value) ==
    IF input_name \notin DOMAIN mf THEN Raise("KeyError", <<>>)
    ELSE LET sets == mf[input_name]
         IN  IF \E s \in DOMAIN sets : ~params_ok(sets[s])
             THEN Raise("ValueError", <<>>)
             ELSE Ok([s \in {t \in DOMAIN sets :
                                degree_of(crisp_value, sets[t]) > 0}
                        |-> degree_of(crisp_value, sets[s])])

(* ------------------------ flc/rule_engine.py --------------------------- *)
\* dict.get(key, 0.0)
Get(fz, key) == IF key \in DOMAIN fz THEN fz[key] ELSE 0

rule_output_nosign(rule, ts, os, fz_theta, fz_omega, crisp_theta, crisp_omega) ==
    LET degree_theta == Get(fz_theta, rule.rule[1])
        degree_omega == Get(fz_omega, rule.rule[2])
        firing_strength == Max(degree_theta, degree_omega)
        z1 == rule.output.theta_coeff * ts * degree_theta
        z2 == rule.output.omega_coeff * os * degree_omega
        z3 == rule.output.bias
    IN  <<firing_strength, z1 + z2 + z3>>

\* the (W, Z) of one rule: W = max of the two degrees, Z as lines 134-147
rule_output(rule, ts, os, fz_theta, fz_omega, crisp_theta, crisp_omega) ==
    LET degree_theta == Get(fz_theta, rule.rule[1])
        degree_omega == Get(fz_omega, rule.rule[2])
        firing_strength == Max(degree_theta, degree_omega)
        z1 == rule.output.theta_coeff * ts * degree_theta * Sign(crisp_theta)
        z2 == rule.output.omega_coeff * os * degree_omega * Sign(crisp_omega)
        z3 == rule.output.bias
    IN  <<firing_strength, z1 + z2 + z3>>

evaluate_all(rules, ts, os, fz_theta, fz_omega, crisp_theta, crisp_omega) ==
    [i \in 1..Len(rules) |->
        rule_output(rules[i], ts, os, fz_theta, fz_omega, crisp_theta, crisp_omega)]

\* RuleEngine.evaluate: the outputs of the rules with W > 0, in rule order
\* (ts, os are self.theta_scale_factor and self.omega_scale_factor)
evaluate(rules, ts, os, fz_theta, fz_omega, crisp_theta, crisp_omega) ==
    SelectSeq([i \in 1..Len(rules) |->
                  rule_output(rules[i], ts, os, fz_theta, fz_omega,
                              crisp_theta, crisp_omega)],
              LAMBDA wz : wz[1] > 0)

(* ------------------------ flc/defuzzifier.py --------------------------- *)
\* denominator = 0.0001
DENOM_GUARD == 1

\* Defuzzifier.defuzzify
defuzzify(outs) ==
    IF outs = <<>> THEN Ok(0)
    ELSE LET numerator == SumSeq([i \in 1..Len(outs) |-> outs[i][1] * outs[i][2]])
             denominator == DENOM_GUARD + SumSeq([i \in 1..Len(outs) |-> outs[i][1]])
         IN  IF denominator = 0 THEN Raise("ZeroDivisionError", 0)
             ELSE Ok(Clamp(Div(numerator, denominator)))

(* ------------------------- flc/controller.py --------------------------- *)
\* FLCController.calculate_motor_cmd as one function of the configuration
calculate_motor_cmd(config, theta, omega) ==
    LET fuzzified_theta == fuzzify(config.membership_functions, "theta", theta)
        fuzzified_omega == fuzzify(config.membership_functions, "omega", omega)
    IN  IF fuzzified_theta.err # "none" THEN Raise(fuzzified_theta.err, 0)
        ELSE IF fuzzified_omega.err # "none" THEN Raise(fuzzified_omega.err, 0)
        ELSE defuzzify(evaluate(config.rule_base,
                                config.THETA_SCALE_FACTOR,
                                config.OMEGA_SCALE_FACTOR,
                                fuzzified_theta.val, fuzzified_omega.val,
                                theta, omega))

(* ------------------------------- state --------------------------------- *)
VARIABLES
    duty_cycle_0,      \* DualPWMController.duty_cycle_0 (PWM0, GPIO 18, CW)
    duty_cycle_1,      \* DualPWMController.duty_cycle_1 (PWM1, GPIO 19, CCW)
    pwm0_hw,           \* duty the pigpio daemon drives on GPIO 18
    pwm1_hw,           \* duty the pigpio daemon drives on GPIO 19
    pi_stopped,        \* pi.stop() has run: the pigpio handle is released
    pigpio_ok,         \* the connection to the pigpio daemon works
    mpc,               \* position inside set_speed / stop
    value,             \* argument of the set_speed call in progress (1/UNANO)
    pc,                \* position of main_control_loop (or of the harness)
    shutdown,          \* main.shutdown (threading.Event)
    config,            \* flc_cfg
    theta_n,           \* main_control_loop's locals of the tick
    omega_n,
    fuzzified_theta,
    fuzzified_omega,
    rule_outputs,
    u_flc,
    u_cmd,
    steps,             \* history: the calls made in the current tick, in order
    sleep_left,        \* 2 ms increments until perf_counter() reaches end
    calls_after_flag,  \* history: set_speed calls issued with the flag set
    imu_failures,      \* history: consecutive IMU reads of the loop that raised
    imu_cfg,           \* IMU_Driver: the parameters read by __init__
    ax_lp,             \* IMU_Driver._ax_lp (LSB)
    az_lp,             \* IMU_Driver._az_lp (LSB)
    omega_filt,        \* IMU_Driver._omega_filt (LSB)
    gyro_bias_y,       \* IMU_Driver._gyro_bias_y (LSB)
    theta_est,         \* IMU_Driver._theta_est (mrad)
    last_t_set,        \* IMU_Driver._last_t is not None
    reads,             \* number of read_normalized calls made
    gy_hist,           \* history: the gyro-Y values delivered to read_normalized
    cal_left,          \* _calibrate_gyro_bias_y: iterations of the loop still to run
    cal_acc,           \* _calibrate_gyro_bias_y: acc (LSB)
    cal_seen,          \* history: the gyro-Y values delivered during calibration
    cal_reads,         \* history: read_all_axes calls made by the calibration
    last_raw,          \* history: the sample delivered to the last read_normalized
    last_dt,           \* history: dt of the last read_normalized (0.1 ms)
    now,               \* time.perf_counter() (ms)
    deadline,          \* read_ax_ay_gz_bytes: deadline (ms)
    status,            \* read_ax_ay_gz_bytes: status, the last STATUS_REG value read
    status_at,         \* history: perf_counter() when that STATUS read completed
    bus_log,           \* history: the registers read on the bus by the call, in order
    mpu_closed,        \* MPU6050Driver._closed
    mpu_h,             \* MPU6050Driver._h
    i2c_close_calls,   \* history: calls of host.i2c_close made by the driver
    host_stop_calls,   \* history: calls of host.stop made by the driver
    bus_xfers,         \* history: register reads and writes issued to the host
    mpu_block,         \* the 14 bytes the host delivered to the last read_all_axes
    mpu_result,        \* outcome of the last MPU6050Driver call
    mpu_ops,           \* number of MPU6050Driver calls made
    booster,           \* what make_stiction_booster(flc_cfg) produced
    sim_cfg,           \* CarriageSimulator.cfg (SimConfig)
    controller,        \* CarriageSimulator.controller: "none" or "callback"
    has_perturb,       \* CarriageSimulator.perturb exists (reset() installs it)
    sim_t,             \* CarriageSimulator.t, in units of cfg.dt
    log_decim,         \* CarriageSimulator._log_decim
    log_t,             \* CarriageSimulator.log_t
    log_theta,         \* CarriageSimulator.log_theta
    log_omega,         \* CarriageSimulator.log_omega
    log_tau_m,         \* CarriageSimulator.log_tau_m
    log_tau_g,         \* CarriageSimulator.log_tau_g
    log_tau_ext,       \* CarriageSimulator.log_tau_ext
    log_cmd,           \* CarriageSimulator.log_cmd
    run_left,          \* run(seconds): iterations of the loop still to make
    sim_k              \* history: steps completed since the last reset()

pwmVars == <<duty_cycle_0, duty_cycle_1, pwm0_hw, pwm1_hw, pi_stopped,
             pigpio_ok, mpc, value>>

flcVars == <<config, theta_n, omega_n, fuzzified_theta, fuzzified_omega,
             rule_outputs, u_flc, u_cmd>>

loopVars == <<pc, shutdown, steps, sleep_left, calls_after_flag, imu_failures>>

imuVars == <<imu_cfg, ax_lp, az_lp, omega_filt, gyro_bias_y, theta_est,
             last_t_set, reads, gy_hist, cal_left, cal_acc, cal_seen, cal_reads,
             last_raw, last_dt>>

\* LSM6DS3TRDriver.read_ax_ay_gz_bytes (I2C): the call in progress
lsmVars == <<now, deadline, status, status_at, bus_log>>

\* MPU6050Driver and its I2C host
mpuVars == <<mpu_closed, mpu_h, i2c_close_calls, host_stop_calls, bus_xfers,
             mpu_block, mpu_result, mpu_ops>>

\* CarriageSimulator
simVars == <<sim_cfg, controller, has_perturb, sim_t, log_decim, log_t,
             log_theta, log_omega, log_tau_m, log_tau_g, log_tau_ext, log_cmd,
             run_left, sim_k>>

extVars == <<lsmVars, mpuVars, booster, simVars>>

vars == <<pwmVars, flcVars, loopVars, imuVars, extVars>>

NoSets == [s \in {} |-> 0]

(* --------------------- hardware/pwm_driver.py --------------------------- *)
duty_of_unclamped(m) == TruncDiv(m, UNANO \div PWM_FULL)

\* duty_val = min(m, 1.0); int(duty_val * 1_000_000), lines 94-97 and 102-103
duty_of(m) == TruncDiv(Min(m, UNANO), UNANO \div PWM_FULL)

\* DualPWMController.__init__: both fields 0, both channels written with 0
InitPWM ==
    /\ duty_cycle_0 = 0
    /\ duty_cycle_1 = 0
    /\ pwm0_hw = 0
    /\ pwm1_hw = 0
    /\ pi_stopped = FALSE
    /\ pigpio_ok = TRUE
    /\ mpc = "idle"
    /\ value = 0

\* set_speed, lines 90-104 / 107-109: the branch on the sign sets both fields
set_speed_call(u) ==
    /\ mpc = "idle"
    /\ value' = u
    /\ IF u < 0
       THEN duty_cycle_0' = 0 /\ duty_cycle_1' = duty_of(-u)
       ELSE IF u > 0
       THEN duty_cycle_0' = duty_of(u) /\ duty_cycle_1' = 0
       ELSE duty_cycle_0' = 0 /\ duty_cycle_1' = 0
    /\ mpc' = "ss_write0"
    /\ UNCHANGED <<pwm0_hw, pwm1_hw, pi_stopped, pigpio_ok>>

\* pi.hardware_PWM(gpio_pwm0, freq, duty_cycle_0): lines 98, 105, 110, 127
hardware_PWM_0 ==
    /\ mpc \in {"ss_write0", "st_write0"}
    /\ IF pigpio_ok
       THEN /\ pwm0_hw' = duty_cycle_0
            /\ mpc' = (IF mpc = "ss_write0" THEN "ss_write1" ELSE "st_write1")
       ELSE /\ mpc' = (IF mpc = "ss_write0" THEN "ss_raised" ELSE "st_raised")
            /\ UNCHANGED pwm0_hw
    /\ UNCHANGED <<duty_cycle_0, duty_cycle_1, pwm1_hw, pi_stopped, pigpio_ok,
                   value>>

\* pi.hardware_PWM(gpio_pwm1, freq, duty_cycle_1): lines 99, 106, 111, 128
hardware_PWM_1 ==
    /\ mpc \in {"ss_write1", "st_write1"}
    /\ IF pigpio_ok
       THEN /\ pwm1_hw' = duty_cycle_1
            /\ mpc' = (IF mpc = "ss_write1" THEN "ss_returned" ELSE "st_pi_stop")
       ELSE /\ mpc' = (IF mpc = "ss_write1" THEN "ss_raised" ELSE "st_raised")
            /\ UNCHANGED pwm1_hw
    /\ UNCHANGED <<duty_cycle_0, duty_cycle_1, pwm0_hw, pi_stopped, pigpio_ok,
                   value>>

\* stop, lines 125-126
stop_call ==
    /\ mpc = "idle"
    /\ duty_cycle_0' = 0
    /\ duty_cycle_1' = 0
    /\ mpc' = "st_write0"
    /\ UNCHANGED <<pwm0_hw, pwm1_hw, pi_stopped, pigpio_ok, value>>

\* stop, line 129: self.pi.stop()
pi_stop ==
    /\ mpc = "st_pi_stop"
    /\ pi_stopped' = TRUE
    /\ mpc' = "st_returned"
    /\ UNCHANGED <<duty_cycle_0, duty_cycle_1, pwm0_hw, pwm1_hw, pigpio_ok,
                   value>>

\* the pigpio daemon goes away: from now on every hardware_PWM call raises
PigpioLost ==
    /\ pigpio_ok
    /\ ~pi_stopped
    /\ pigpio_ok' = FALSE
    /\ UNCHANGED <<duty_cycle_0, duty_cycle_1, pwm0_hw, pwm1_hw, pi_stopped,
                   mpc, value>>

MotorStep == hardware_PWM_0 \/ hardware_PWM_1 \/ pi_stop

(* ----------------------- hardware/imu_driver.py -------------------------- *)
\* pi and pi/2 in milliradians
PI_MILLI == 3142

HALF_PI_MILLI == 1571

\* self._OMEGA_FS_RAW = 32768.0
OMEGA_FS_RAW == 32768

\* 1e-4 s, the least dt of line 290, in units of 0.1 ms
DT_MIN == 1

\* _iir_alpha: dt / (rc + dt) = 2 pi fc / (fs + 2 pi fc), in units of 1/ONE
\* (rates are positive here, so the max(1e-6, .) guards do not bind)
iir_alpha(sample_rate_hz, cutoff_hz) ==
    Div(2 * PI_MILLI * cutoff_hz * ONE,
        1000 * sample_rate_hz + 2 * PI_MILLI * cutoff_hz)

\* tanh(x) / x in units of 1/512 for x = q / 256, |x| < 3, by the rational
\* tanh(x) ~ x (27 + x^2) / (27 + 9 x^2), which reaches 1 at |x| = 3
tanh_ratio(q) == Div((1769472 + q * q) * 512, 1769472 + 9 * q * q)

\* _soft_clip_tanh: int(fs * tanh(v / fs)); int(v) when fs <= 0
soft_clip_tanh(v, fs) ==
    IF fs <= 0 THEN v
    ELSE IF v >= 3 * fs THEN fs
    ELSE IF v <= -3 * fs THEN -fs
    ELSE TruncDiv(v * tanh_ratio(Div(v * 256, fs)), 512)

\* atan(mn / mx) for 0 <= mn <= mx, mx > 0, in mrad:
\* z (pi/4 + 0.273 (1 - z)) with z in units of 1/1024
atan_unit(mn, mx) ==
    LET z == Div(mn * 1024, mx)
    IN  Div(z * (785 + Div(273 * (1024 - z), 1024)), 1024)

\* math.atan2(y, x) in mrad, for x # 0 or y # 0
atan2(y, x) ==
    LET ay == Abs(y)
        ax == Abs(x)
        base == IF ay <= ax THEN atan_unit(ay, ax)
                ELSE HALF_PI_MILLI - atan_unit(ax, ay)
        q == IF x >= 0 THEN base ELSE PI_MILLI - base
    IN  IF y < 0 THEN -q ELSE q

\* line 301: math.atan2(self._ax_lp, -self._az_lp).  When both filters are
\* 0.0 the second argument is -0.0 and atan2(0.0, -0.0) is pi.
theta_acc_of(axl, azl) ==
    IF axl = 0 /\ azl = 0 THEN PI_MILLI ELSE atan2(axl, -azl)

\* x_lp += alpha * (x - x_lp), lines 297, 298, 305
low_pass(lp, x, alpha) == lp + Div(alpha * (x - lp), ONE)

norm_unclamped(x, full) == Div(x * ONE, full)

\* lines 307-308 and 331-332: divide by the range, then clamp to [-1, 1]
norm_clamped(x, full) == Clamp(Div(x * ONE, full))

accel_trust_always(ax, ay, az, one_g, tol) == TRUE

\* lines 311-313: | |a| / ACCEL_1G_RAW - 1 | <= ACCEL_MAG_TOL_G, compared on
\* squares of the values divided by 16 (tol in units of 1/ONE)
accel_trust_of(ax, ay, az, one_g, tol) ==
    LET sq(v) == (v \div 16) * (v \div 16)
        amag2 == sq(Abs(ax)) + sq(Abs(ay)) + sq(Abs(az))
        lo == Div(Max(0, ONE - tol) * (one_g \div 16), ONE)
        hi == Div((ONE + tol) * (one_g \div 16), ONE)
    IN  lo * lo <= amag2 /\ amag2 <= hi * hi

\* lines 318-321: omega_filt in LSB -> deg/s -> rad/s, times dt (0.1 ms units)
gyro_delta(of, lsb_per_dps, dt) ==
    Div(Div(of * PI_MILLI, lsb_per_dps * 180) * dt, 10000)

\* no IMU_Driver in this specification
IdleIMU ==
    /\ imu_cfg = [USE_COMPLEMENTARY |-> FALSE]
    /\ ax_lp = 0
    /\ az_lp = 0
    /\ omega_filt = 0
    /\ gyro_bias_y = 0
    /\ theta_est = 0
    /\ last_t_set = FALSE
    /\ reads = 0
    /\ gy_hist = <<>>
    /\ cal_left = 0
    /\ cal_acc = 0
    /\ cal_seen = {}
    /\ cal_reads = 0
    /\ last_raw = <<>>
    /\ last_dt = 0

IdleLSM ==
    /\ now = 0
    /\ deadline = 0
    /\ status = 0
    /\ status_at = 0
    /\ bus_log = <<>>

\* MPU6050Driver.__init__, lines 76-87: handle open, _closed False
IdleMPU ==
    /\ mpu_closed = FALSE
    /\ mpu_h = 0
    /\ i2c_close_calls = 0
    /\ host_stop_calls = 0
    /\ bus_xfers = 0
    /\ mpu_block = <<>>
    /\ mpu_result = Ok(0)
    /\ mpu_ops = 0

\* make_stiction_booster has not been called
IdleStiction == booster = "none"

\* the dataclass defaults of CarriageSimulator, lines 97-113
IdleSim ==
    /\ sim_cfg = [steps_per_log |-> 10]
    /\ controller = "none"
    /\ has_perturb = FALSE
    /\ sim_t = 0
    /\ log_decim = 0
    /\ log_t = <<>>
    /\ log_theta = <<>>
    /\ log_omega = <<>>
    /\ log_tau_m = <<>>
    /\ log_tau_g = <<>>
    /\ log_tau_ext = <<>>
    /\ log_cmd = <<>>
    /\ run_left = 0
    /\ sim_k = 0

IdleExt == IdleLSM /\ IdleMPU /\ IdleStiction /\ IdleSim

(* ------------- DualPWMController driven by an arbitrary caller ---------- *)
\* commands in units of 1/UNANO: 0, below 1e-6, 0.01, 0.5, 1.0 and 2.0
SpeedInputs ==
    {0, 500, -500, 10000000, -10000000, 500000000, -500000000,
     UNANO, -UNANO, 2 * UNANO, -2 * UNANO}

IdleFLC ==
    /\ config = [membership_functions |-> NoSets, rule_base |-> <<>>,
                 THETA_SCALE_FACTOR |-> 1, OMEGA_SCALE_FACTOR |-> 1]
    /\ theta_n = 0
    /\ omega_n = 0
    /\ fuzzified_theta = NoSets
    /\ fuzzified_omega = NoSets
    /\ rule_outputs = <<>>
    /\ u_flc = 0
    /\ u_cmd = 0

IdleLoop(p) ==
    /\ pc = p
    /\ shutdown = FALSE
    /\ steps = <<>>
    /\ sleep_left = 0
    /\ calls_after_flag = 0
    /\ imu_failures = 0

InitPWMHarness == InitPWM /\ IdleFLC /\ IdleLoop("harness") /\ IdleIMU /\ IdleExt

HarnessSetSpeed ==
    /\ pc = "harness"
    /\ ~pi_stopped
    /\ \E u \in SpeedInputs : set_speed_call(u)
    /\ UNCHANGED <<flcVars, loopVars, imuVars, extVars>>

HarnessStop ==
    /\ pc = "harness"
    /\ ~pi_stopped
    /\ stop_call
    /\ UNCHANGED <<flcVars, loopVars, imuVars, extVars>>

\* the call in progress has returned or raised; the caller goes on
HarnessReturn ==
    /\ pc = "harness"
    /\ mpc \in {"ss_returned", "ss_raised", "st_returned", "st_raised"}
    /\ mpc' = "idle"
    /\ UNCHANGED <<duty_cycle_0, duty_cycle_1, pwm0_hw, pwm1_hw, pi_stopped,
                   pigpio_ok, value, flcVars, loopVars, imuVars, extVars>>

HarnessMotorStep == MotorStep /\ UNCHANGED <<flcVars, loopVars, imuVars, extVars>>

HarnessPigpioLost == PigpioLost /\ UNCHANGED <<flcVars, loopVars, imuVars, extVars>>

NextPWM ==
    \/ HarnessSetSpeed
    \/ HarnessStop
    \/ HarnessReturn
    \/ HarnessMotorStep
    \/ HarnessPigpioLost

SpecPWM == InitPWMHarness /\ [][NextPWM]_vars

(* ------------------- claims about DualPWMController --------------------- *)
\* C3: at every moment, also between the two channel writes of one call, at
\* most one of the two PWM channels has a non-zero duty.
C3_AtMostOneChannelDriven == ~(pwm0_hw > 0 /\ pwm1_hw > 0)

\* tests/unit/test_pwm_driver_unit.py: the dead-zone constants and mapping
MIN_PWM == 57000

MAX_PWM == 1000000

EPS_NANO == 1000

expected_pwm(v) ==
    LET m == Abs(v)
    IN  IF m < EPS_NANO THEN 0
        ELSE MIN_PWM
             + TruncDiv((Min(m, UNANO) \div 1000) * ((MAX_PWM - MIN_PWM) \div 1000),
                        1000)

\* C8: after set_speed(u) the channel selected by the sign of u carries
\* MIN_PWM + min(|u|, 1) * (MAX_PWM - MIN_PWM) when |u| >= 1e-6 (528500 for
\* 0.5, 66430 for 0.01, MAX_PWM for 1.0), the other channel 0, and both are 0
\* when |u| < 1e-6.
C8_DeadZoneMapping ==
    mpc = "ss_returned" =>
        /\ value > 0 => duty_cycle_0 = expected_pwm(value) /\ duty_cycle_1 = 0
        /\ value < 0 => duty_cycle_1 = expected_pwm(value) /\ duty_cycle_0 = 0
        /\ value = 0 => duty_cycle_0 = 0 /\ duty_cycle_1 = 0

GoodMF ==
    [N |-> <<-15000, -15000, -5000, 0>>,
     Z |-> <<-5000, 0, 5000>>,
     P |-> <<0, 5000, 15000, 15000>>]

NegOutput == [theta_coeff |-> -1, omega_coeff |-> -1, bias |-> 0]

GoodRules ==
    <<[rule |-> <<"N", "N">>, output |-> NegOutput],
      [rule |-> <<"Z", "Z">>, output |-> NegOutput],
      [rule |-> <<"P", "P">>, output |-> NegOutput]>>

GoodConfig ==
    [membership_functions |-> [theta |-> GoodMF, omega |-> GoodMF],
     rule_base |-> GoodRules,
     THETA_SCALE_FACTOR |-> 1, OMEGA_SCALE_FACTOR |-> 1]

\* a flc_cfg without membership functions for omega: fuzzify raises KeyError
NoOmegaConfig ==
    [membership_functions |-> [theta |-> GoodMF],
     rule_base |-> GoodRules,
     THETA_SCALE_FACTOR |-> 1, OMEGA_SCALE_FACTOR |-> 1]

LoopConfigs == {GoodConfig, NoOmegaConfig}

\* values read_normalized can return (both are clamped to [-1, 1])
NormSamples == {-ONE, -2500, 0, 2500, ONE}

\* make_stiction_booster with ENABLED false: _passthrough, line 81
stiction(theta, omega, u, dt) == Clamp(u)

TickSequence ==
    <<"read_normalized", "fuzzify_theta", "fuzzify_omega", "evaluate",
      "defuzzify", "stiction", "set_speed">>

\* main_control_loop after line 157: imu, flc and motor are constructed.
\* (FLCController.__init__, line 45, calls RuleEngine(rule_base) without the
\* rule_scaling argument that RuleEngine.__init__ requires; the loop is
\* entered only with a controller whose rule engine was given its scaling,
\* which is the controller modelled here.)
InitLoop ==
    /\ InitPWM
    /\ config \in LoopConfigs
    /\ theta_n = 0
    /\ omega_n = 0
    /\ fuzzified_theta = NoSets
    /\ fuzzified_omega = NoSets
    /\ rule_outputs = <<>>
    /\ u_flc = 0
    /\ u_cmd = 0
    /\ IdleLoop("while_test")
    /\ IdleIMU /\ IdleExt

\* _on_signal: shutdown.set(), on SIGINT or SIGTERM, at any moment
OnSignal ==
    /\ pc # "done"
    /\ shutdown' = TRUE
    /\ UNCHANGED <<pwmVars, flcVars, pc, steps, sleep_left, calls_after_flag, imu_failures, imuVars, extVars>>

WhileTest_noflag ==
    /\ pc = "while_test"
    /\ pc' = "read_normalized"
    /\ steps' = <<>>
    /\ UNCHANGED <<pwmVars, flcVars, shutdown, sleep_left, calls_after_flag, imu_failures, imuVars, extVars>>

\* line 160: while not shutdown.is_set()  (lines 161-164 take the time)
WhileTest ==
    /\ pc = "while_test"
    /\ IF shutdown
       THEN pc' = "finally" /\ UNCHANGED steps
       ELSE pc' = "read_normalized" /\ steps' = <<>>
    /\ UNCHANGED <<pwmVars, flcVars, shutdown, sleep_left, calls_after_flag, imu_failures, imuVars, extVars>>

\* line 167: theta_n, omega_n = imu.read_normalized(), or the transport raises
ReadNormalized ==
    /\ pc = "read_normalized"
    /\ \/ /\ \E t \in NormSamples, o \in NormSamples :
               theta_n' = t /\ omega_n' = o
          /\ steps' = Append(steps, "read_normalized")
          /\ imu_failures' = 0
          /\ pc' = "fuzzify_theta"
       \/ /\ pc' = "finally"
          /\ imu_failures' = imu_failures + 1
          /\ UNCHANGED <<theta_n, omega_n, steps>>
    /\ UNCHANGED <<pwmVars, config, fuzzified_theta, fuzzified_omega,
                   rule_outputs, u_flc, u_cmd, shutdown, sleep_left,
                   calls_after_flag, imuVars, extVars>>

\* controller.py line 67
FuzzifyTheta ==
    /\ pc = "fuzzify_theta"
    /\ LET r == fuzzify(config.membership_functions, "theta", theta_n)
       IN  IF r.err = "none"
           THEN /\ fuzzified_theta' = r.val
                /\ steps' = Append(steps, "fuzzify_theta")
                /\ pc' = "fuzzify_omega"
           ELSE /\ pc' = "finally"
                /\ UNCHANGED <<fuzzified_theta, steps>>
    /\ UNCHANGED <<pwmVars, config, theta_n, omega_n, fuzzified_omega,
                   rule_outputs, u_flc, u_cmd, shutdown, sleep_left,
                   calls_after_flag, imu_failures, imuVars, extVars>>

\* controller.py line 68
FuzzifyOmega ==
    /\ pc = "fuzzify_omega"
    /\ LET r == fuzzify(config.membership_functions, "omega", omega_n)
       IN  IF r.err = "none"
           THEN /\ fuzzified_omega' = r.val
                /\ steps' = Append(steps, "fuzzify_omega")
                /\ pc' = "evaluate"
           ELSE /\ pc' = "finally"
                /\ UNCHANGED <<fuzzified_omega, steps>>
    /\ UNCHANGED <<pwmVars, config, theta_n, omega_n, fuzzified_theta,
                   rule_outputs, u_flc, u_cmd, shutdown, sleep_left,
                   calls_after_flag, imu_failures, imuVars, extVars>>

\* controller.py lines 71-73
Evaluate ==
    /\ pc = "evaluate"
    /\ rule_outputs' = evaluate(config.rule_base, config.THETA_SCALE_FACTOR,
                                config.OMEGA_SCALE_FACTOR, fuzzified_theta,
                                fuzzified_omega, theta_n, omega_n)
    /\ steps' = Append(steps, "evaluate")
    /\ pc' = "defuzzify"
    /\ UNCHANGED <<pwmVars, config, theta_n, omega_n, fuzzified_theta,
                   fuzzified_omega, u_flc, u_cmd, shutdown, sleep_left,
                   calls_after_flag, imu_failures, imuVars, extVars>>

\* controller.py line 76 and main.py line 168
Defuzzify ==
    /\ pc = "defuzzify"
    /\ LET r == defuzzify(rule_outputs)
       IN  IF r.err = "none"
           THEN /\ u_flc' = r.val
                /\ steps' = Append(steps, "defuzzify")
                /\ pc' = "stiction"
           ELSE /\ pc' = "finally"
                /\ UNCHANGED <<u_flc, steps>>
    /\ UNCHANGED <<pwmVars, config, theta_n, omega_n, fuzzified_theta,
                   fuzzified_omega, rule_outputs, u_cmd, shutdown, sleep_left,
                   calls_after_flag, imu_failures, imuVars, extVars>>

Stiction_stale ==
    /\ pc = "stiction"
    /\ steps' = Append(steps, "stiction")
    /\ pc' = "set_speed"
    /\ UNCHANGED <<pwmVars, flcVars, shutdown, sleep_left, calls_after_flag, imu_failures, imuVars, extVars>>

\* line 169: u_cmd = stiction(theta_n, omega_n, u_flc, dt_loop)
Stiction ==
    /\ pc = "stiction"
    /\ u_cmd' = stiction(theta_n, omega_n, u_flc, 0)
    /\ steps' = Append(steps, "stiction")
    /\ pc' = "set_speed"
    /\ UNCHANGED <<pwmVars, config, theta_n, omega_n, fuzzified_theta,
                   fuzzified_omega, rule_outputs, u_flc, shutdown, sleep_left,
                   calls_after_flag, imu_failures, imuVars, extVars>>

\* line 170: motor.set_speed(u_cmd)  (the call is issued)
SetSpeed ==
    /\ pc = "set_speed"
    /\ set_speed_call(u_cmd * (UNANO \div ONE))
    /\ steps' = Append(steps, "set_speed")
    /\ calls_after_flag' = (IF shutdown THEN Min(calls_after_flag + 1, 2)
                            ELSE calls_after_flag)
    /\ pc' = "in_set_speed"
    /\ UNCHANGED <<flcVars, shutdown, sleep_left, imu_failures, imuVars, extVars>>

\* set_speed returned; lines 172-175: dt, sleep and end are computed.
\* n is the number of 2 ms increments before perf_counter() reaches end
\* (0 when sleep <= 0, the overrun case)
SetSpeedReturned ==
    /\ pc = "in_set_speed"
    /\ mpc = "ss_returned"
    /\ mpc' = "idle"
    /\ \E n \in 0..MaxSleepIncrements : sleep_left' = n
    /\ pc' = "sleep_loop"
    /\ UNCHANGED <<duty_cycle_0, duty_cycle_1, pwm0_hw, pwm1_hw, pi_stopped,
                   pigpio_ok, value, flcVars, shutdown, steps,
                   calls_after_flag, imu_failures, imuVars, extVars>>

\* set_speed raised: the exception leaves the try block
SetSpeedRaised ==
    /\ pc = "in_set_speed"
    /\ mpc = "ss_raised"
    /\ mpc' = "idle"
    /\ pc' = "finally"
    /\ UNCHANGED <<duty_cycle_0, duty_cycle_1, pwm0_hw, pwm1_hw, pi_stopped,
                   pigpio_ok, value, flcVars, shutdown, steps, sleep_left,
                   calls_after_flag, imu_failures, imuVars, extVars>>

SleepLoop_noflag ==
    /\ pc = "sleep_loop"
    /\ IF sleep_left = 0
       THEN pc' = "while_test" /\ UNCHANGED sleep_left
       ELSE sleep_left' = sleep_left - 1 /\ UNCHANGED pc
    /\ UNCHANGED <<pwmVars, flcVars, shutdown, steps, calls_after_flag, imu_failures, imuVars, extVars>>

\* lines 176-177: while not shutdown.is_set() and perf_counter() < end:
\*                    time.sleep(0.002)
SleepLoop ==
    /\ pc = "sleep_loop"
    /\ IF shutdown \/ sleep_left = 0
       THEN pc' = "while_test" /\ UNCHANGED sleep_left
       ELSE sleep_left' = sleep_left - 1 /\ UNCHANGED pc
    /\ UNCHANGED <<pwmVars, flcVars, shutdown, steps, calls_after_flag, imu_failures, imuVars, extVars>>

\* lines 179-181: finally: motor.stop()  (the call is issued)
Finally ==
    /\ pc = "finally"
    /\ stop_call
    /\ pc' = "in_stop"
    /\ UNCHANGED <<flcVars, shutdown, steps, sleep_left, calls_after_flag, imu_failures, imuVars, extVars>>

\* stop returned, or raised and lines 182-183 logged it: the function returns
StopDone ==
    /\ pc = "in_stop"
    /\ mpc \in {"st_returned", "st_raised"}
    /\ pc' = "done"
    /\ UNCHANGED <<pwmVars, flcVars, shutdown, steps, sleep_left,
                   calls_after_flag, imu_failures, imuVars, extVars>>

LoopMotorStep ==
    /\ pc \in {"in_set_speed", "in_stop"}
    /\ MotorStep
    /\ UNCHANGED <<flcVars, loopVars, imuVars, extVars>>

LoopPigpioLost ==
    /\ pc # "done"
    /\ PigpioLost
    /\ UNCHANGED <<flcVars, loopVars, imuVars, extVars>>

LoopStep ==
    \/ WhileTest
    \/ ReadNormalized
    \/ FuzzifyTheta
    \/ FuzzifyOmega
    \/ Evaluate
    \/ Defuzzify
    \/ Stiction
    \/ SetSpeed
    \/ SetSpeedReturned
    \/ SetSpeedRaised
    \/ SleepLoop
    \/ Finally
    \/ StopDone
    \/ LoopMotorStep

NextLoop == LoopStep \/ OnSignal \/ LoopPigpioLost

SpecLoop == InitLoop /\ [][NextLoop]_vars

\* the interpreter keeps running the control thread: every enabled step of
\* the loop is eventually taken; signals and daemon failures may never come
FairLoop == SpecLoop /\ WF_vars(LoopStep)

(* ----------------------- claims about the loop -------------------------- *)
stop_was_called ==
    mpc \in {"st_write0", "st_write1", "st_pi_stop", "st_returned", "st_raised"}

\* C4: on every path by which main_control_loop leaves its loop, motor.stop()
\* has been called when the function returns, both duties are zero and the
\* pigpio handle is released.
C4_StopReleasesOnExit ==
    pc = "done" =>
        /\ stop_was_called
        /\ duty_cycle_0 = 0 /\ duty_cycle_1 = 0
        /\ pwm0_hw = 0 /\ pwm1_hw = 0
        /\ pi_stopped

\* C5: in each tick the calls are made in the order read_normalized,
\* fuzzify('theta'), fuzzify('omega'), evaluate, defuzzify, (stiction,)
\* set_speed, each after the previous one has returned; a completed tick has
\* made exactly one set_speed call, and its argument is the command computed
\* from the (theta_n, omega_n) read in the same tick.
C5_TickOrder ==
    /\ Len(steps) <= Len(TickSequence)
    /\ steps = SubSeq(TickSequence, 1, Len(steps))
    /\ pc \in {"in_set_speed", "sleep_loop"} => steps = TickSequence
    /\ pc = "in_set_speed" =>
          /\ calculate_motor_cmd(config, theta_n, omega_n).err = "none"
          /\ value = (UNANO \div ONE)
                * stiction(theta_n, omega_n,
                           calculate_motor_cmd(config, theta_n, omega_n).val, 0)

\* a tick has completed with a non-zero command for a tilted sample
C5_Witness ==
    /\ pc = "sleep_loop"
    /\ steps = TickSequence
    /\ theta_n = 2500
    /\ omega_n = 0
    /\ pwm1_hw > 0

\* C6: once the shutdown flag is set while the loop runs, the loop terminates
\* and motor.stop() is called; and with the flag set the tail-end sleep takes
\* no further 2 ms increment.
C6_ShutdownTerminates ==
    /\ (shutdown /\ pc # "done") ~> (pc = "done" /\ stop_was_called)
    /\ [][shutdown /\ pc = "sleep_loop" => sleep_left' = sleep_left]_vars

\* the flag came during the sleep, increments were left, the loop has ended
C6_Witness ==
    /\ shutdown
    /\ pc = "done"
    /\ steps = TickSequence
    /\ sleep_left > 0
    /\ stop_was_called

\* C7 as stated: no set_speed call is issued after the flag has been set.
C7_NoSetSpeedAfterFlag == calls_after_flag = 0

\* C7, amended: the flag is checked at the top of the loop and during the
\* sleep only.  Once it is set no new tick starts, and the tick in progress
\* runs to its end: at most one set_speed call is issued with the flag set.
C7_NoNewTickAfterFlag ==
    /\ [](calls_after_flag <= 1)
    /\ [][shutdown => ~(pc = "while_test" /\ pc' = "read_normalized")]_vars

\* the flag was set in the middle of a tick and set_speed was still called
C7_Witness ==
    /\ shutdown
    /\ calls_after_flag = 1
    /\ pc = "done"

(* ------------------- the defuzzifier on arbitrary lists ------------------ *)
\* firing strengths W >= 0 and consequents Z, also outside [-1, 1]
WInputs == {0, 2000, 5000, 8000, ONE}

ZInputs == {-30000, -3000, 5000, 25000}

SeqsUpTo(S, n) == UNION {[1..k -> S] : k \in 0..n}

InitDefuzz == InitPWM /\ IdleFLC /\ IdleLoop("defuzz_harness") /\ IdleIMU /\ IdleExt

\* one call of Defuzzifier.defuzzify(rule_outputs)
DefuzzifyCall ==
    /\ pc = "defuzz_harness"
    /\ \E outs \in SeqsUpTo(WInputs \X ZInputs, MaxRuleOutputs) :
          LET r == defuzzify(outs)
          IN  /\ rule_outputs' = outs
              /\ u_flc' = r.val
              /\ pc' = (IF r.err = "none" THEN "defuzz_returned"
                        ELSE "defuzz_raised")
    /\ UNCHANGED <<pwmVars, config, theta_n, omega_n, fuzzified_theta,
                   fuzzified_omega, u_cmd, shutdown, steps, sleep_left,
                   calls_after_flag, imu_failures, imuVars, extVars>>

NextDefuzz == DefuzzifyCall

SpecDefuzz == InitDefuzz /\ [][NextDefuzz]_vars

\* C1: for every list of (W, Z) with W >= 0, defuzzify returns u with
\* -1 <= u <= 1, also when the weighted average is outside that range:
\* [(1.0, 2.5)] gives 1.0 and [(0.5, -3.0)] gives -1.0.
C1_DefuzzifyInRange ==
    /\ pc # "defuzz_raised"
    /\ pc = "defuzz_returned" =>
          /\ -ONE <= u_flc /\ u_flc <= ONE
          /\ rule_outputs = <<<<ONE, 25000>>>> => u_flc = ONE
          /\ rule_outputs = <<<<5000, -30000>>>> => u_flc = -ONE

\* the list [(1.0, 2.5)], whose weighted average is about 2.5, gave 1.0
C1_Witness ==
    /\ pc = "defuzz_returned"
    /\ rule_outputs = <<<<ONE, 25000>>>>
    /\ u_flc = ONE

(* -------------- the defuzzifier on lists of any floats ------------------ *)
\* weights of either sign, the least ones of magnitude 0.0001 and 0.0002
WAny == {-5000, -1, 0, 2, 5000, ONE}

ZAny == {-3000, 5000}

InitDefuzzAny ==
    InitPWM /\ IdleFLC /\ IdleLoop("defuzz_any_harness") /\ IdleIMU /\ IdleExt

\* one call of Defuzzifier.defuzzify(rule_outputs), rule_outputs any list
DefuzzifyAnyCall ==
    /\ pc = "defuzz_any_harness"
    /\ \E outs \in SeqsUpTo(WAny \X ZAny, MaxRuleOutputs) :
          LET r == defuzzify(outs)
          IN  /\ rule_outputs' = outs
              /\ u_flc' = r.val
              /\ pc' = (IF r.err = "none" THEN "defuzz_returned"
                        ELSE "defuzz_raised")
    /\ UNCHANGED <<pwmVars, config, theta_n, omega_n, fuzzified_theta,
                   fuzzified_omega, u_cmd, shutdown, steps, sleep_left,
                   calls_after_flag, imu_failures, imuVars, extVars>>

NextDefuzzAny == DefuzzifyAnyCall

SpecDefuzzAny == InitDefuzzAny /\ [][NextDefuzzAny]_vars

\* sum of the weights and of the products of the list handed to defuzzify
SumW == SumSeq([i \in 1..Len(rule_outputs) |-> rule_outputs[i][1]])

SumWZ ==
    SumSeq([i \in 1..Len(rule_outputs) |-> rule_outputs[i][1] * rule_outputs[i][2]])

C15_GuardDoesNotAlter ==
    (/\ pc = "defuzz_returned"
     /\ rule_outputs # <<>>
     /\ \A i \in 1..Len(rule_outputs) : rule_outputs[i][1] >= 0
     /\ SumW > DENOM_GUARD)
        => u_flc = Clamp(Div(SumWZ, SumW))

(* ------------------ one inference cycle on any rule base ---------------- *)
\* a second membership table: triangles with gaps between the sets
NarrowMF ==
    [N |-> <<-ONE, -ONE, 0>>,
     Z |-> <<-2500, 0, 2500>>,
     P |-> <<0, ONE, ONE>>]

MFChoices == {GoodMF, NarrowMF}

\* consequents: the design constraint met, with and without bias, and broken
OutputChoices ==
    {[theta_coeff |-> -1, omega_coeff |-> -1, bias |-> 0],
     [theta_coeff |-> -1, omega_coeff |-> 0, bias |-> 0],
     [theta_coeff |-> 0, omega_coeff |-> -1, bias |-> 0],
     [theta_coeff |-> -1, omega_coeff |-> -1, bias |-> 5000],
     [theta_coeff |-> -1, omega_coeff |-> -1, bias |-> -5000],
     [theta_coeff |-> 1, omega_coeff |-> -1, bias |-> 0]}

ScaleChoices == {<<1, 1>>, <<2, 1>>, <<-1, 1>>}

FLCConfigs ==
    {[membership_functions |-> [theta |-> mf, omega |-> mf],
      rule_base |-> <<[rule |-> <<"N", "N">>, output |-> o1],
                      [rule |-> <<"Z", "Z">>, output |-> o2],
                      [rule |-> <<"P", "P">>, output |-> o3]>>,
      THETA_SCALE_FACTOR |-> sc[1], OMEGA_SCALE_FACTOR |-> sc[2]] :
        mf \in MFChoices, o1 \in OutputChoices, o2 \in OutputChoices,
        o3 \in OutputChoices, sc \in ScaleChoices}

InitFLC ==
    /\ InitPWM
    /\ config \in FLCConfigs
    /\ theta_n = 0
    /\ omega_n = 0
    /\ fuzzified_theta = NoSets
    /\ fuzzified_omega = NoSets
    /\ rule_outputs = <<>>
    /\ u_flc = 0
    /\ u_cmd = 0
    /\ IdleLoop("flc_harness")
    /\ IdleIMU /\ IdleExt

\* one call of FLCController.calculate_motor_cmd(theta, omega): Fuzzifier,
\* RuleEngine(rule_base, rule_scaling) and Defuzzifier chained as in lines 67-76
CalculateMotorCmd ==
    /\ pc = "flc_harness"
    /\ \E t \in NormSamples, o \in NormSamples :
          LET ft == fuzzify(config.membership_functions, "theta", t)
              fo == fuzzify(config.membership_functions, "omega", o)
              outs == evaluate(config.rule_base, config.THETA_SCALE_FACTOR,
                               config.OMEGA_SCALE_FACTOR, ft.val, fo.val, t, o)
              r == defuzzify(outs)
          IN  /\ theta_n' = t
              /\ omega_n' = o
              /\ IF ft.err = "none" /\ fo.err = "none" /\ r.err = "none"
                 THEN /\ fuzzified_theta' = ft.val
                      /\ fuzzified_omega' = fo.val
                      /\ rule_outputs' = outs
                      /\ u_flc' = r.val
                      /\ pc' = "flc_returned"
                 ELSE /\ pc' = "flc_raised"
                      /\ UNCHANGED <<fuzzified_theta, fuzzified_omega,
                                     rule_outputs, u_flc>>
    /\ UNCHANGED <<pwmVars, config, u_cmd, shutdown, steps, sleep_left,
                   calls_after_flag, imu_failures, imuVars, extVars>>

NextFLC == CalculateMotorCmd

SpecFLC == InitFLC /\ [][NextFLC]_vars

\* the design constraint: theta_coeff <= 0 and omega_coeff <= 0 in every rule
CoeffsNonPositive ==
    \A i \in 1..Len(config.rule_base) :
        /\ config.rule_base[i].output.theta_coeff <= 0
        /\ config.rule_base[i].output.omega_coeff <= 0

NegativeFeedback ==
    /\ theta_n > 0 /\ omega_n = 0 => u_flc <= 0
    /\ theta_n < 0 /\ omega_n = 0 => u_flc >= 0
    /\ theta_n = 0 /\ omega_n > 0 => u_flc <= 0

\* C10 as stated: with non-positive coefficients the command opposes the
\* error, for every rule base and membership configuration.
C10_NegativeFeedback ==
    pc = "flc_returned" /\ CoeffsNonPositive => NegativeFeedback

NoBias == \A i \in 1..Len(config.rule_base) : config.rule_base[i].output.bias = 0

ScalesNonNegative ==
    config.THETA_SCALE_FACTOR >= 0 /\ config.OMEGA_SCALE_FACTOR >= 0

\* C10, amended: the command opposes the error when, in addition, every rule
\* has bias 0 and both scale factors are non-negative.
C10_NegativeFeedbackNoBias ==
    pc = "flc_returned" /\ CoeffsNonPositive /\ NoBias /\ ScalesNonNegative
        => NegativeFeedback

\* a positive tilt at rest gave a strictly negative command
C10_Witness ==
    /\ pc = "flc_returned"
    /\ CoeffsNonPositive /\ NoBias /\ ScalesNonNegative
    /\ theta_n > 0 /\ omega_n = 0
    /\ u_flc < 0

\* the rules whose firing strength is positive in the cycle just computed
FiredRules ==
    {i \in 1..Len(config.rule_base) :
        Max(Get(fuzzified_theta, config.rule_base[i].rule[1]),
            Get(fuzzified_omega, config.rule_base[i].rule[2])) > 0}

\* C11: one inference cycle at theta_n = 0, omega_n = 0 gives u = 0 when the
\* rules that fire at the origin have bias 0.
C11_ZeroInZeroOut ==
    (/\ pc = "flc_returned"
     /\ theta_n = 0 /\ omega_n = 0
     /\ \A i \in FiredRules : config.rule_base[i].output.bias = 0)
        => u_flc = 0

\* a rule with non-zero coefficients fired at the origin, a rule with a bias
\* did not, and the command is 0
C11_Witness ==
    /\ pc = "flc_returned"
    /\ theta_n = 0 /\ omega_n = 0
    /\ rule_outputs # <<>>
    /\ \A i \in FiredRules :
          /\ config.rule_base[i].output.bias = 0
          /\ config.rule_base[i].output.theta_coeff # 0
          /\ config.rule_base[i].output.omega_coeff # 0
    /\ \E i \in 1..Len(config.rule_base) :
          i \notin FiredRules /\ config.rule_base[i].output.bias # 0
    /\ u_flc = 0

NthFired(k) ==
    CHOOSE i \in FiredRules : Cardinality({j \in FiredRules : j < i}) = k - 1

\* C13: for every active rule Z is the linear Sugeno consequent on the crisp
\* inputs, Z = theta_coeff * THETA_SCALE_FACTOR * theta_n
\*           + omega_coeff * OMEGA_SCALE_FACTOR * omega_n + bias.
C13_LinearSugenoZ ==
    pc = "flc_returned" =>
        \A k \in 1..Len(rule_outputs) :
            LET out == config.rule_base[NthFired(k)].output
            IN  rule_outputs[k][2] =
                    out.theta_coeff * config.THETA_SCALE_FACTOR * theta_n
                    + out.omega_coeff * config.OMEGA_SCALE_FACTOR * omega_n
                    + out.bias

(* ---------------------- the fuzzifier on its own ------------------------ *)
\* the table of test_fuzzifer.py, and tables with a malformed set
TestMF == [ZERO |-> <<-5000, 0, 5000>>, POS |-> <<0, 5000, ONE>>]

UnorderedMF == [ZERO |-> <<5000, 0, -5000>>, POS |-> <<0, 5000, ONE>>]

ShortMF == [ZERO |-> <<-5000, 5000>>, POS |-> <<0, 5000, ONE>>]

FuzzTables ==
    {[theta |-> TestMF],
     [theta |-> GoodMF, omega |-> NarrowMF],
     [theta |-> NarrowMF, omega |-> UnorderedMF],
     [theta |-> ShortMF, omega |-> GoodMF]}

InputNames == {"theta", "omega", "nonexistent_input"}

\* crisp values on and between the feet and peaks, and beyond [-1, 1]
XInputs == {1250 * k : k \in -12..12}

\* Fuzzifier.__init__(mf_params)
InitFuzz ==
    /\ InitPWM
    /\ config \in {[membership_functions |-> t] : t \in FuzzTables}
    /\ theta_n = 0
    /\ omega_n = 0
    /\ fuzzified_theta = NoSets
    /\ fuzzified_omega = NoSets
    /\ rule_outputs = <<>>
    /\ u_flc = 0
    /\ u_cmd = 0
    /\ IdleLoop("fuzz_harness")
    /\ IdleIMU /\ IdleExt

\* one call of Fuzzifier.fuzzify(input_name, crisp_value); steps records the
\* input name and the outcome
FuzzifyCall ==
    /\ pc = "fuzz_harness"
    /\ \E name \in InputNames, x \in XInputs :
          LET r == fuzzify(config.membership_functions, name, x)
          IN  /\ theta_n' = x
              /\ steps' = <<name, r.err>>
              /\ IF r.err = "none"
                 THEN fuzzified_theta' = r.val /\ pc' = "fuzz_returned"
                 ELSE UNCHANGED fuzzified_theta /\ pc' = "fuzz_raised"
    /\ UNCHANGED <<pwmVars, config, omega_n, fuzzified_omega, rule_outputs,
                   u_flc, u_cmd, shutdown, sleep_left, calls_after_flag, imu_failures,
                   imuVars, extVars>>

NextFuzz == FuzzifyCall

SpecFuzz == InitFuzz /\ [][NextFuzz]_vars

\* C16: fuzzify returns exactly the sets of the input whose degree at x is
\* strictly positive, each with its degree in (0, 1]; for an input name
\* without membership functions it raises KeyError and returns nothing.
C16_OnlyPositiveSets ==
    /\ pc = "fuzz_returned" =>
          /\ steps[1] \in DOMAIN config.membership_functions
          /\ DOMAIN fuzzified_theta \subseteq
                DOMAIN config.membership_functions[steps[1]]
          /\ \A s \in DOMAIN config.membership_functions[steps[1]] :
                LET deg == degree_of(theta_n, config.membership_functions[steps[1]][s])
                IN  IF deg > 0
                    THEN s \in DOMAIN fuzzified_theta /\ fuzzified_theta[s] = deg
                    ELSE s \notin DOMAIN fuzzified_theta
          /\ \A s \in DOMAIN fuzzified_theta :
                0 < fuzzified_theta[s] /\ fuzzified_theta[s] <= ONE
    /\ (pc \in {"fuzz_returned", "fuzz_raised"}
        /\ steps[1] \notin DOMAIN config.membership_functions)
          => pc = "fuzz_raised" /\ steps[2] = "KeyError"

\* fuzzify('theta', -0.25) on the test table: ZERO at 0.5, POS omitted
C16_Witness ==
    /\ pc = "fuzz_returned"
    /\ config.membership_functions.theta = TestMF
    /\ steps[1] = "theta"
    /\ theta_n = -2500
    /\ fuzzified_theta = [s \in {"ZERO"} |-> 5000]

\* C17: for every trapezoidal set (a <= b <= c <= d), shoulders with a = b
\* or c = d included, the degree is 1 for every x with b <= x <= c.
C17_PlateauIsOne ==
    pc = "fuzz_returned" =>
        \A s \in DOMAIN config.membership_functions[steps[1]] :
            LET params == config.membership_functions[steps[1]][s]
            IN  (Len(params) = 4 /\ params[2] <= theta_n /\ theta_n <= params[3])
                    => s \in DOMAIN fuzzified_theta /\ fuzzified_theta[s] = ONE

(* --------------------- IMU_Driver on arbitrary samples ------------------- *)
\* parameter sets without bias calibration
IMUConfigs ==
    {[SAMPLE_RATE_HZ |-> 52, ACCEL_CUTOFF_HZ |-> 30, OMEGA_CUTOFF_HZ |-> 30,
      THETA_RANGE_RAD |-> PI_MILLI, ACCEL_RAW_FS |-> 16384,
      ACCEL_1G_RAW |-> 16384, GYRO_LSB_PER_DPS |-> 131,
      USE_COMPLEMENTARY |-> FALSE, COMP_ALPHA |-> 9800,
      ACCEL_MAG_TOL_G |-> 1500,
      DO_GYRO_BIAS_CAL |-> FALSE, GYRO_BIAS_SAMPLES |-> 200],
     [SAMPLE_RATE_HZ |-> 100, ACCEL_CUTOFF_HZ |-> 8, OMEGA_CUTOFF_HZ |-> 8,
      THETA_RANGE_RAD |-> HALF_PI_MILLI, ACCEL_RAW_FS |-> 16384,
      ACCEL_1G_RAW |-> 16384, GYRO_LSB_PER_DPS |-> 131,
      USE_COMPLEMENTARY |-> FALSE, COMP_ALPHA |-> 9800,
      ACCEL_MAG_TOL_G |-> 1500,
      DO_GYRO_BIAS_CAL |-> FALSE, GYRO_BIAS_SAMPLES |-> 200],
     [SAMPLE_RATE_HZ |-> 52, ACCEL_CUTOFF_HZ |-> 30, OMEGA_CUTOFF_HZ |-> 30,
      THETA_RANGE_RAD |-> HALF_PI_MILLI, ACCEL_RAW_FS |-> 16384,
      ACCEL_1G_RAW |-> 16384, GYRO_LSB_PER_DPS |-> 131,
      USE_COMPLEMENTARY |-> TRUE, COMP_ALPHA |-> 5000,
      ACCEL_MAG_TOL_G |-> 500,
      DO_GYRO_BIAS_CAL |-> FALSE, GYRO_BIAS_SAMPLES |-> 200]}

\* (AX, AY, AZ, GX, GY, GZ) as the transport delivers them: upright, tilted
\* 45 and 135 degrees, rotating, gyro beyond int16, accel far from 1 g, zero
RawSamples ==
    {<<0, 0, -16384, 0, 0, 0>>,
     <<11585, 0, -11585, 0, 0, 0>>,
     <<11585, 0, 11585, 0, 0, 0>>,
     <<0, 0, -16384, 0, 16384, 0>>,
     <<0, 0, -16384, 0, 40000, 0>>,
     <<0, 0, -16384, 0, -40000, 0>>,
     <<32768, 0, -32768, 0, 1000, 0>>,
     <<0, 0, 0, 0, 100, 0>>}

\* perf_counter() - self._last_t, in units of 0.1 ms: none, or one second
Elapsed == {0, 10000}

\* IMU_Driver.__init__ with zero filter state and no bias
InitIMU ==
    /\ InitPWM
    /\ IdleFLC
    /\ IdleLoop("imu_harness")
    /\ IdleExt
    /\ imu_cfg \in IMUConfigs
    /\ ax_lp = 0
    /\ az_lp = 0
    /\ omega_filt = 0
    /\ gyro_bias_y = 0
    /\ theta_est = 0
    /\ last_t_set = FALSE
    /\ reads = 0
    /\ gy_hist = <<>>
    /\ cal_left = 0
    /\ cal_acc = 0
    /\ cal_seen = {}
    /\ cal_reads = 0
    /\ last_raw = <<>>
    /\ last_dt = 0

\* IMU_Driver.read_normalized, lines 283-344
read_normalized ==
    /\ pc \in {"imu_harness", "imu_returned", "imu_raised"}
    /\ reads < MaxReads
    /\ reads' = reads + 1
    /\ \E raw \in RawSamples, el \in Elapsed :
          LET ax == raw[1]
              ay == raw[2]
              az == raw[3]
              gy == raw[5]
              dt == IF ~last_t_set THEN 10000 \div imu_cfg.SAMPLE_RATE_HZ
                    ELSE Max(DT_MIN, el)
              alpha_acc == iir_alpha(imu_cfg.SAMPLE_RATE_HZ, imu_cfg.ACCEL_CUTOFF_HZ)
              alpha_omega == iir_alpha(imu_cfg.SAMPLE_RATE_HZ, imu_cfg.OMEGA_CUTOFF_HZ)
              ax_new == low_pass(ax_lp, soft_clip_tanh(ax, imu_cfg.ACCEL_RAW_FS), alpha_acc)
              az_new == low_pass(az_lp, soft_clip_tanh(az, imu_cfg.ACCEL_RAW_FS), alpha_acc)
              theta_acc == theta_acc_of(ax_new, az_new)
              of_new == low_pass(omega_filt, gy - gyro_bias_y, alpha_omega)
              accel_trust == accel_trust_of(ax, ay, az, imu_cfg.ACCEL_1G_RAW,
                                            imu_cfg.ACCEL_MAG_TOL_G)
              theta_gyro == theta_est + gyro_delta(of_new, imu_cfg.GYRO_LSB_PER_DPS, dt)
              alpha == IF accel_trust THEN imu_cfg.COMP_ALPHA ELSE ONE
              est_new == Div(alpha * theta_gyro + (ONE - alpha) * theta_acc, ONE)
              theta_rads == IF imu_cfg.USE_COMPLEMENTARY THEN est_new ELSE theta_acc
          IN  /\ last_t_set' = TRUE
              /\ ax_lp' = ax_new
              /\ az_lp' = az_new
              /\ omega_filt' = of_new
              /\ theta_est' = (IF imu_cfg.USE_COMPLEMENTARY THEN est_new ELSE theta_est)
              /\ omega_n' = norm_clamped(of_new, OMEGA_FS_RAW)
              /\ theta_n' = norm_clamped(theta_rads, imu_cfg.THETA_RANGE_RAD)
              /\ gy_hist' = Append(gy_hist, gy)
              /\ last_raw' = raw
              /\ last_dt' = dt
    /\ pc' = "imu_returned"
    /\ UNCHANGED <<pwmVars, config, fuzzified_theta, fuzzified_omega,
                   rule_outputs, u_flc, u_cmd, shutdown, steps, sleep_left,
                   calls_after_flag, imu_failures, extVars, imu_cfg, gyro_bias_y, cal_left, cal_acc,
                   cal_seen, cal_reads>>

\* line 283: self._dev.read_all_axes() raises; nothing has been updated
read_normalized_raises ==
    /\ pc \in {"imu_harness", "imu_returned", "imu_raised"}
    /\ reads < MaxReads
    /\ reads' = reads + 1
    /\ pc' = "imu_raised"
    /\ UNCHANGED <<pwmVars, flcVars, shutdown, steps, sleep_left,
                   calls_after_flag, imu_failures, extVars, imu_cfg, ax_lp, az_lp, omega_filt,
                   gyro_bias_y, theta_est, last_t_set, gy_hist, cal_left,
                   cal_acc, cal_seen, cal_reads, last_raw, last_dt>>

NextIMU == read_normalized \/ read_normalized_raises

SpecIMU == InitIMU /\ [][NextIMU]_vars

\* C2: after any sequence of read_normalized() calls, for every sequence of
\* raw samples (also beyond int16) and either setting of the complementary
\* filter, the returned theta_n and omega_n lie in [-1, +1].
C2_NormalizedInRange ==
    pc = "imu_returned" =>
        /\ -ONE <= theta_n /\ theta_n <= ONE
        /\ -ONE <= omega_n /\ omega_n <= ONE

\* both clamps were needed: the filtered gyro is beyond full scale and the
\* complementary estimate is beyond the theta range
C2_Witness ==
    /\ pc = "imu_returned"
    /\ imu_cfg.USE_COMPLEMENTARY
    /\ omega_filt > OMEGA_FS_RAW
    /\ theta_est > imu_cfg.THETA_RANGE_RAD
    /\ omega_n = ONE
    /\ theta_n = ONE

\* C19: a read_normalized() call whose raw gyro-Y sample is 40000 returns
\* omega_n = +1.0 exactly, also as the first read after construction.
C19_SaturatedGyroGivesOne ==
    (/\ pc = "imu_returned"
     /\ gy_hist # <<>>
     /\ gy_hist[Len(gy_hist)] = 40000)
        => omega_n = ONE

(* ------------------ IMU_Driver with gyro bias calibration --------------- *)
\* line 263: n = max(10, int(n))
cal_count(n) == Max(10, n)

calibrated_bias_sum(acc, n) == acc

\* line 272: return acc / float(n)
calibrated_bias(acc, n) == Div(acc, n)

\* parameter sets with DO_GYRO_BIAS_CAL: 10 samples asked for, as in
\* test_gyro_bias_calibration_zeroes_omega, 20 and 4; and one without
IMUCalConfigs ==
    {[SAMPLE_RATE_HZ |-> 100, ACCEL_CUTOFF_HZ |-> 4, OMEGA_CUTOFF_HZ |-> 8,
      THETA_RANGE_RAD |-> HALF_PI_MILLI, ACCEL_RAW_FS |-> 16384,
      ACCEL_1G_RAW |-> 16384, GYRO_LSB_PER_DPS |-> 131,
      USE_COMPLEMENTARY |-> FALSE, COMP_ALPHA |-> 9800,
      ACCEL_MAG_TOL_G |-> 1500,
      DO_GYRO_BIAS_CAL |-> TRUE, GYRO_BIAS_SAMPLES |-> 10],
     [SAMPLE_RATE_HZ |-> 52, ACCEL_CUTOFF_HZ |-> 30, OMEGA_CUTOFF_HZ |-> 30,
      THETA_RANGE_RAD |-> PI_MILLI, ACCEL_RAW_FS |-> 16384,
      ACCEL_1G_RAW |-> 16384, GYRO_LSB_PER_DPS |-> 131,
      USE_COMPLEMENTARY |-> FALSE, COMP_ALPHA |-> 9800,
      ACCEL_MAG_TOL_G |-> 1500,
      DO_GYRO_BIAS_CAL |-> TRUE, GYRO_BIAS_SAMPLES |-> 20],
     [SAMPLE_RATE_HZ |-> 100, ACCEL_CUTOFF_HZ |-> 4, OMEGA_CUTOFF_HZ |-> 8,
      THETA_RANGE_RAD |-> HALF_PI_MILLI, ACCEL_RAW_FS |-> 16384,
      ACCEL_1G_RAW |-> 16384, GYRO_LSB_PER_DPS |-> 131,
      USE_COMPLEMENTARY |-> FALSE, COMP_ALPHA |-> 9800,
      ACCEL_MAG_TOL_G |-> 1500,
      DO_GYRO_BIAS_CAL |-> TRUE, GYRO_BIAS_SAMPLES |-> 4],
     [SAMPLE_RATE_HZ |-> 100, ACCEL_CUTOFF_HZ |-> 4, OMEGA_CUTOFF_HZ |-> 8,
      THETA_RANGE_RAD |-> HALF_PI_MILLI, ACCEL_RAW_FS |-> 16384,
      ACCEL_1G_RAW |-> 16384, GYRO_LSB_PER_DPS |-> 131,
      USE_COMPLEMENTARY |-> FALSE, COMP_ALPHA |-> 9800,
      ACCEL_MAG_TOL_G |-> 1500,
      DO_GYRO_BIAS_CAL |-> FALSE, GYRO_BIAS_SAMPLES |-> 200]}

\* gyro-Y values the transport delivers while the carriage is (held) still
CalGyros == {100, 1000}

\* IMU_Driver.__init__ at line 255: about to call _calibrate_gyro_bias_y
\* when do_gyro_bias_cal, constructed otherwise
InitIMUCal ==
    /\ InitPWM
    /\ IdleFLC
    /\ imu_cfg \in IMUCalConfigs
    /\ IdleLoop(IF imu_cfg.DO_GYRO_BIAS_CAL
                THEN "imu_calibrating" ELSE "imu_harness")
    /\ IdleExt
    /\ ax_lp = 0
    /\ az_lp = 0
    /\ omega_filt = 0
    /\ gyro_bias_y = 0
    /\ theta_est = 0
    /\ last_t_set = FALSE
    /\ reads = 0
    /\ gy_hist = <<>>
    /\ cal_left = IF imu_cfg.DO_GYRO_BIAS_CAL
                  THEN cal_count(imu_cfg.GYRO_BIAS_SAMPLES) ELSE 0
    /\ cal_acc = 0
    /\ cal_seen = {}
    /\ cal_reads = 0
    /\ last_raw = <<>>
    /\ last_dt = 0

\* one iteration of the loop of lines 267-270; after the last one line 272
\* returns and line 257 stores the bias
calibrate_read ==
    /\ pc = "imu_calibrating"
    /\ cal_left > 0
    /\ \E gy \in CalGyros :
          /\ cal_acc' = cal_acc + gy
          /\ cal_seen' = cal_seen \cup {gy}
          /\ cal_reads' = cal_reads + 1
          /\ cal_left' = cal_left - 1
          /\ IF cal_left = 1
             THEN /\ gyro_bias_y' =
                        calibrated_bias(cal_acc + gy,
                                        cal_count(imu_cfg.GYRO_BIAS_SAMPLES))
                  /\ pc' = "imu_harness"
             ELSE UNCHANGED <<gyro_bias_y, pc>>
    /\ UNCHANGED <<pwmVars, flcVars, shutdown, steps, sleep_left,
                   calls_after_flag, imu_failures, extVars, imu_cfg, ax_lp, az_lp, omega_filt,
                   theta_est, last_t_set, reads, gy_hist, last_raw, last_dt>>

\* line 268: read_all_axes raises and the constructor fails
calibrate_read_raises ==
    /\ pc = "imu_calibrating"
    /\ cal_left > 0
    /\ pc' = "imu_init_raised"
    /\ UNCHANGED <<pwmVars, flcVars, shutdown, steps, sleep_left,
                   calls_after_flag, imu_failures, imuVars, extVars>>

NextIMUCal ==
    \/ calibrate_read
    \/ calibrate_read_raises
    \/ read_normalized
    \/ read_normalized_raises

SpecIMUCal == InitIMUCal /\ [][NextIMUCal]_vars

C20_FirstImuFailureTolerated ==
    (pc \in {"finally", "in_stop", "done"} /\ imu_failures > 0)
        => imu_failures >= 2

\* C21: a rule base holding a rule with theta_coeff > 0 or omega_coeff > 0 is
\* rejected when the rule engine is constructed, so no inference cycle is ever
\* evaluated on a rule base with a positive coefficient.
C21_PositiveCoeffRejected ==
    (pc = "flc_returned" /\ rule_outputs # <<>>) => CoeffsNonPositive

\* C22: malformed membership parameters (unordered, or neither 3 nor 4
\* values) are rejected when the Fuzzifier is constructed, so no fuzzify call
\* on a constructed Fuzzifier fails because of malformed parameters.
C22_NoMalformedAfterConstruction ==
    pc = "fuzz_raised" => steps[2] # "ValueError"

(* ------------- hardware/LSM6DS3TR_i2c_driver.py: the data read ----------- *)
STATUS_REG == 30

OUTX_L_G == 34

ready_any(st) == (st % 4) # 0

\* (status & (_STATUS_XLDA | _STATUS_GDA)) == (_STATUS_XLDA | _STATUS_GDA)
ready(st) == (st % 4) = 3

InitLSM ==
    /\ InitPWM
    /\ IdleFLC
    /\ IdleLoop("lsm_harness")
    /\ IdleIMU
    /\ IdleLSM
    /\ IdleMPU
    /\ IdleStiction
    /\ IdleSim

\* line 194: deadline = time.perf_counter() + timeout_s
read_ax_ay_gz_bytes ==
    /\ pc = "lsm_harness"
    /\ \E t \in {20, 5} : deadline' = now + t
    /\ bus_log' = <<>>
    /\ pc' = "lsm_read_status"
    /\ UNCHANGED <<pwmVars, flcVars, shutdown, steps, sleep_left,
                   calls_after_flag, imu_failures, imuVars, mpuVars, booster, simVars, now, status,
                   status_at>>

\* line 196: status = i2c_read_byte_data(h, STATUS_REG) & 0xFF, or pigpio raises
ReadStatus ==
    /\ pc = "lsm_read_status"
    /\ \E d \in {1, 8} : now' = now + d
    /\ bus_log' = Append(bus_log, STATUS_REG)
    /\ \/ /\ \E v \in {0, 1, 2, 3, 7} : status' = v % 256
          /\ status_at' = now'
          /\ pc' = "lsm_test_ready"
          /\ UNCHANGED steps
       \/ /\ pc' = "lsm_raised"
          /\ steps' = <<"pigpio.error">>
          /\ UNCHANGED <<status, status_at>>
    /\ UNCHANGED <<pwmVars, flcVars, shutdown, sleep_left, calls_after_flag,
                   imu_failures, imuVars, mpuVars, booster, simVars, deadline>>

\* lines 198-199: both bits set: break
TestReady ==
    /\ pc = "lsm_test_ready"
    /\ pc' = IF ready(status) THEN "lsm_read_block" ELSE "lsm_test_deadline"
    /\ UNCHANGED <<pwmVars, flcVars, shutdown, steps, sleep_left,
                   calls_after_flag, imu_failures, imuVars, lsmVars, mpuVars, booster, simVars>>

\* lines 200-201: if time.perf_counter() >= deadline: raise RuntimeError
TestDeadline ==
    /\ pc = "lsm_test_deadline"
    /\ IF now >= deadline
       THEN pc' = "lsm_raised" /\ steps' = <<"data not ready">>
       ELSE pc' = "lsm_read_status" /\ UNCHANGED steps
    /\ UNCHANGED <<pwmVars, flcVars, shutdown, sleep_left, calls_after_flag,
                   imu_failures, imuVars, lsmVars, mpuVars, booster, simVars>>

\* line 202: block = self._read_block(OUTX_L_G, 12), which raises on a short
\* read or a pigpio error
ReadBlock ==
    /\ pc = "lsm_read_block"
    /\ \E d \in {1, 8} : now' = now + d
    /\ bus_log' = Append(bus_log, OUTX_L_G)
    /\ \/ pc' = "lsm_returned" /\ UNCHANGED steps
       \/ pc' = "lsm_raised" /\ steps' = <<"short read">>
    /\ UNCHANGED <<pwmVars, flcVars, shutdown, sleep_left, calls_after_flag,
                   imu_failures, imuVars, mpuVars, booster, simVars, deadline, status, status_at>>

NextLSM ==
    \/ read_ax_ay_gz_bytes
    \/ ReadStatus
    \/ TestReady
    \/ TestDeadline
    \/ ReadBlock

\* every step of the call returns: the bus transaction completes or raises
FairLSM == InitLSM /\ [][NextLSM]_vars /\ WF_vars(NextLSM)

\* STATUS bit 0 (XLDA) and bit 1 (GDA) are both set
BothReady == (status % 2 = 1) /\ ((status \div 2) % 2 = 1)

BlockRead == \E i \in 1..Len(bus_log) : bus_log[i] = OUTX_L_G

\* the data block is the last transaction, directly after a STATUS read that
\* showed XLDA and GDA
BlockAfterReadyStatus ==
    BlockRead =>
        /\ Len(bus_log) >= 2
        /\ bus_log[Len(bus_log)] = OUTX_L_G
        /\ \A i \in 1..(Len(bus_log) - 1) : bus_log[i] = STATUS_REG
        /\ BothReady

TimeoutWithoutBlock ==
    (pc = "lsm_raised" /\ steps = <<"data not ready">>) =>
        ~BlockRead /\ ~BothReady /\ status_at >= deadline

\* C23 as stated: the block is read only after a ready STATUS, a timeout
\* raises without a block read, and readiness that was not seen before the
\* deadline always ends in the error.
C23_ReadyOnlyBeforeDeadline ==
    /\ BlockAfterReadyStatus
    /\ TimeoutWithoutBlock
    /\ BlockRead => status_at < deadline

\* C23, amended: the block is read only after a STATUS read of the same call
\* showed XLDA and GDA; a STATUS read without both bits that completes at or
\* after the deadline ends the call with the error and without a block read
\* (polling goes on only before the deadline); and the call always ends.
C23_StatusThenBlock ==
    /\ [](BlockAfterReadyStatus /\ TimeoutWithoutBlock)
    /\ []((pc = "lsm_read_status" /\ bus_log # <<>>) => status_at < deadline)
    /\ <>(pc \in {"lsm_returned", "lsm_raised"})

\* the call polled more than once and returned the block
C23_Witness ==
    /\ pc = "lsm_returned"
    /\ Len(bus_log) >= 3
    /\ BothReady

(* -------------------- hardware/mpu6050_i2c_driver.py --------------------- *)
int_from_bytes_big_unsigned(hi, lo) == hi * 256 + lo

\* int.from_bytes(block[k:k+2], "big", signed=True)
int_from_bytes_big_signed(hi, lo) == IF hi * 256 + lo >= 32768 THEN hi * 256 + lo - 65536 ELSE hi * 256 + lo

\* lines 156-164: AX, AY, AZ from offsets 0, 2, 4 and GX, GY, GZ from 8, 10, 12
\* (Python offset k is element k + 1 here)
axes_of(block) ==
    <<int_from_bytes_big_signed(block[1], block[2]),
      int_from_bytes_big_signed(block[3], block[4]),
      int_from_bytes_big_signed(block[5], block[6]),
      int_from_bytes_big_signed(block[9], block[10]),
      int_from_bytes_big_signed(block[11], block[12]),
      int_from_bytes_big_signed(block[13], block[14])>>

\* _require_open passes
is_open(closed, h) == ~(closed \/ h < 0)

\* values the host returns for (high, low) of one axis: 0x8000, 0xFFFE, 0x7FFF,
\* 0x0001, and 0x8000 delivered with bits above the byte
AxisWords == {<<128, 0>>, <<255, 254>>, <<127, 255>>, <<0, 1>>, <<384, 256>>}

\* what the host returns for the 14 registers from ACCEL_XOUT_H
HostBlocks ==
    {a \o b \o c \o t \o c \o a \o b :
        a \in AxisWords, b \in AxisWords, c \in AxisWords, t \in {<<0, 0>>, <<243, 80>>}}

\* _read_block: out.append(self._read_byte(reg + i) & 0xFF)
masked(raw) == [i \in 1..Len(raw) |-> raw[i] % 256]

InitMPU ==
    /\ InitPWM
    /\ IdleFLC
    /\ IdleLoop("mpu_harness")
    /\ IdleIMU
    /\ IdleLSM
    /\ IdleMPU
    /\ IdleStiction
    /\ IdleSim

\* read_all_axes, lines 150-166, with _read_block and _read_byte
read_all_axes ==
    /\ pc = "mpu_harness"
    /\ mpu_ops < MaxMpuOps
    /\ mpu_ops' = mpu_ops + 1
    /\ steps' = <<"read_all_axes">>
    /\ IF ~is_open(mpu_closed, mpu_h)
       THEN /\ mpu_result' = Raise("RuntimeError", <<>>)
            /\ UNCHANGED <<bus_xfers, mpu_block>>
       ELSE \/ \E raw \in HostBlocks :
                 /\ mpu_block' = masked(raw)
                 /\ bus_xfers' = bus_xfers + 14
                 /\ mpu_result' = Ok(axes_of(masked(raw)))
            \/ \E k \in {1, 8, 14} :
                 /\ bus_xfers' = bus_xfers + k
                 /\ mpu_result' = Raise("RuntimeError", <<>>)
                 /\ UNCHANGED mpu_block
    /\ UNCHANGED <<pwmVars, flcVars, pc, shutdown, sleep_left,
                   calls_after_flag, imu_failures, imuVars, lsmVars, booster, simVars,
                   mpu_closed, mpu_h, i2c_close_calls, host_stop_calls>>

\* _read_byte(reg), lines 104-112
read_byte ==
    /\ pc = "mpu_harness"
    /\ mpu_ops < MaxMpuOps
    /\ mpu_ops' = mpu_ops + 1
    /\ steps' = <<"_read_byte">>
    /\ IF ~is_open(mpu_closed, mpu_h)
       THEN /\ mpu_result' = Raise("RuntimeError", <<>>)
            /\ UNCHANGED bus_xfers
       ELSE /\ bus_xfers' = bus_xfers + 1
            /\ \/ \E v \in {0, 104, 255} : mpu_result' = Ok(v)
               \/ mpu_result' = Raise("RuntimeError", <<>>)
    /\ UNCHANGED <<pwmVars, flcVars, pc, shutdown, sleep_left,
                   calls_after_flag, imu_failures, imuVars, lsmVars, booster, simVars,
                   mpu_closed, mpu_h, i2c_close_calls, host_stop_calls,
                   mpu_block>>

\* _write_byte(reg, value), lines 94-102
write_byte ==
    /\ pc = "mpu_harness"
    /\ mpu_ops < MaxMpuOps
    /\ mpu_ops' = mpu_ops + 1
    /\ steps' = <<"_write_byte">>
    /\ IF ~is_open(mpu_closed, mpu_h)
       THEN /\ mpu_result' = Raise("RuntimeError", <<>>)
            /\ UNCHANGED bus_xfers
       ELSE /\ bus_xfers' = bus_xfers + 1
            /\ \/ mpu_result' = Ok(0)
               \/ mpu_result' = Raise("RuntimeError", <<>>)
    /\ UNCHANGED <<pwmVars, flcVars, pc, shutdown, sleep_left,
                   calls_after_flag, imu_failures, imuVars, lsmVars, booster, simVars,
                   mpu_closed, mpu_h, i2c_close_calls, host_stop_calls,
                   mpu_block>>

close_noguard ==
    /\ pc = "mpu_harness"
    /\ mpu_ops < MaxMpuOps
    /\ mpu_ops' = mpu_ops + 1
    /\ steps' = <<"close">>
    /\ mpu_closed' = TRUE
    /\ mpu_h' = -1
    /\ host_stop_calls' = host_stop_calls + 1
    /\ IF mpu_h >= 0
       THEN /\ i2c_close_calls' = i2c_close_calls + 1
            /\ \/ mpu_result' = Ok(0)
               \/ mpu_result' = Raise("pigpio.error", 0)
       ELSE /\ mpu_result' = Ok(0)
            /\ UNCHANGED i2c_close_calls
    /\ UNCHANGED <<pwmVars, flcVars, pc, shutdown, sleep_left,
                   calls_after_flag, imu_failures, imuVars, lsmVars, booster, simVars,
                   bus_xfers, mpu_block>>

\* close, lines 169-183: returns at once when _closed; otherwise sets _closed,
\* closes the handle (i2c_close may raise), and in the finally block sets
\* _h = -1 and calls host.stop(), whose exception is swallowed
close ==
    /\ pc = "mpu_harness"
    /\ mpu_ops < MaxMpuOps
    /\ mpu_ops' = mpu_ops + 1
    /\ steps' = <<"close">>
    /\ IF mpu_closed
       THEN /\ mpu_result' = Ok(0)
            /\ UNCHANGED <<mpu_closed, mpu_h, i2c_close_calls,
                           host_stop_calls>>
       ELSE /\ mpu_closed' = TRUE
            /\ mpu_h' = -1
            /\ host_stop_calls' = host_stop_calls + 1
            /\ IF mpu_h >= 0
               THEN /\ i2c_close_calls' = i2c_close_calls + 1
                    /\ \/ mpu_result' = Ok(0)
                       \/ mpu_result' = Raise("pigpio.error", 0)
               ELSE /\ mpu_result' = Ok(0)
                    /\ UNCHANGED i2c_close_calls
    /\ UNCHANGED <<pwmVars, flcVars, pc, shutdown, sleep_left,
                   calls_after_flag, imu_failures, imuVars, lsmVars, booster, simVars,
                   bus_xfers, mpu_block>>

NextMPU ==
    \/ read_all_axes
    \/ read_byte
    \/ write_byte
    \/ close

SpecMPU == InitMPU /\ [][NextMPU]_vars

\* v is the 16-bit two's-complement reading of the bytes (hi, lo)
Signed16(hi, lo, v) ==
    /\ v \in -32768..32767
    /\ (v - (hi * 256 + lo)) % 65536 = 0

\* C24: read_all_axes returns (AX, AY, AZ, GX, GY, GZ), each the signed
\* 16-bit big-endian value of the bytes at offsets 0, 2, 4, 8, 10, 12 of the
\* block, whatever the temperature bytes are; 0x8000 is -32768, 0xFFFE is -2
\* and 0x7FFF is 32767.
C24_BigEndianSigned ==
    (steps = <<"read_all_axes">> /\ mpu_result.err = "none") =>
        LET r == mpu_result.val
            b == mpu_block
        IN  /\ Len(r) = 6
            /\ Signed16(b[1], b[2], r[1])
            /\ Signed16(b[3], b[4], r[2])
            /\ Signed16(b[5], b[6], r[3])
            /\ Signed16(b[9], b[10], r[4])
            /\ Signed16(b[11], b[12], r[5])
            /\ Signed16(b[13], b[14], r[6])
            /\ (b[1] = 128 /\ b[2] = 0) => r[1] = -32768
            /\ (b[3] = 255 /\ b[4] = 254) => r[2] = -2
            /\ (b[5] = 127 /\ b[6] = 255) => r[3] = 32767

\* a block with 0x8000, 0xFFFE, 0x7FFF in AX, AY, AZ and a non-zero temperature
C24_Witness ==
    /\ steps = <<"read_all_axes">>
    /\ mpu_result.err = "none"
    /\ mpu_block[7] # 0
    /\ mpu_result.val[1] = -32768
    /\ mpu_result.val[2] = -2
    /\ mpu_result.val[3] = 32767
    /\ mpu_result.val[4] = 32767
    /\ mpu_result.val[5] = -32768

\* C25: close() closes the handle and stops the host at most once; a close()
\* on a closed driver returns without raising and without calling the host;
\* every register read or write on a closed driver, read_all_axes included,
\* raises RuntimeError and issues no bus transaction.
C25_CloseOnceThenRefuse ==
    /\ [](i2c_close_calls <= 1 /\ host_stop_calls <= 1)
    /\ [][(mpu_closed /\ steps' = <<"close">>) =>
            /\ mpu_result'.err = "none"
            /\ UNCHANGED <<i2c_close_calls, host_stop_calls, bus_xfers>>]_vars
    /\ [][(mpu_closed /\ mpu_ops' # mpu_ops /\ steps' # <<"close">>) =>
            /\ mpu_result'.err = "RuntimeError"
            /\ UNCHANGED <<i2c_close_calls, host_stop_calls, bus_xfers>>]_vars

\* two close() calls, then a read_all_axes that was refused: one i2c_close,
\* one stop, no register access
C25_Witness ==
    /\ mpu_closed
    /\ mpu_ops = 3
    /\ steps = <<"read_all_axes">>
    /\ mpu_result.err = "RuntimeError"
    /\ i2c_close_calls = 1
    /\ host_stop_calls = 1
    /\ bus_xfers = 0

\* C26: the constructor with calibration enabled reads exactly
\* GYRO_BIAS_SAMPLES samples, for every value >= 1 of it, and stores their
\* gyro-Y average as the bias; with calibration disabled it reads none and
\* the bias is 0.
C26_ReadsExactlyN ==
    pc \notin {"imu_calibrating", "imu_init_raised"} =>
        IF imu_cfg.DO_GYRO_BIAS_CAL
        THEN /\ cal_reads = imu_cfg.GYRO_BIAS_SAMPLES
             /\ gyro_bias_y = Div(cal_acc, imu_cfg.GYRO_BIAS_SAMPLES)
        ELSE cal_reads = 0 /\ gyro_bias_y = 0

\* |a| / ACCEL_1G_RAW of the last sample differs from 1 by more than
\* ACCEL_MAG_TOL_G, on squares of the values in units of 64 LSB
OutsideTolerance(raw, cfg) ==
    LET sq64(v) == (Abs(v) \div 64) * (Abs(v) \div 64)
        amag2 == sq64(raw[1]) + sq64(raw[2]) + sq64(raw[3])
        g64 == cfg.ACCEL_1G_RAW \div 64
        lo == Div((ONE - cfg.ACCEL_MAG_TOL_G) * g64, ONE)
        hi == Div((ONE + cfg.ACCEL_MAG_TOL_G) * g64, ONE)
    IN  amag2 > hi * hi \/ amag2 < lo * lo

\* C27: with the complementary filter, a sample whose accelerometer magnitude
\* is outside the tolerance gives theta_est = theta_est_prev + omega_rad * dt
\* whatever its theta_acc is, a sample within the tolerance gives
\* COMP_ALPHA * (theta_est_prev + omega_rad * dt) + (1 - COMP_ALPHA) * theta_acc;
\* without the filter read_normalized leaves theta_est alone.
C27_GyroOnlyOutsideTolerance ==
    [][(pc' = "imu_returned" /\ reads' # reads) =>
          LET theta_gyro == theta_est + gyro_delta(omega_filt', imu_cfg.GYRO_LSB_PER_DPS, last_dt')
              theta_acc == theta_acc_of(ax_lp', az_lp')
          IN  IF ~imu_cfg.USE_COMPLEMENTARY THEN theta_est' = theta_est
              ELSE IF OutsideTolerance(last_raw', imu_cfg)
                   THEN theta_est' = theta_gyro
                   ELSE theta_est' =
                          Div(imu_cfg.COMP_ALPHA * theta_gyro
                              + (ONE - imu_cfg.COMP_ALPHA) * theta_acc, ONE)]_vars

\* a sample far from 1 g arrived while the carriage rotates: the estimate
\* moved by the gyro term only and differs from the accelerometer tilt
C27_Witness ==
    /\ pc = "imu_returned"
    /\ imu_cfg.USE_COMPLEMENTARY
    /\ reads >= 2
    /\ OutsideTolerance(last_raw, imu_cfg)
    /\ omega_filt # 0
    /\ theta_est # 0
    /\ theta_est # theta_acc_of(ax_lp, az_lp)

(* ------------------- main.py: make_stiction_booster ---------------------- *)
\* flc_cfg without a [stiction_boost] table, with ENABLED false, and with
\* ENABLED true and the other keys at their defaults
StictionConfigs ==
    {[stiction_boost |-> [ENABLED |-> FALSE, BOOST_MAX |-> 3500],
      has_table |-> FALSE],
     [stiction_boost |-> [ENABLED |-> FALSE, BOOST_MAX |-> 3500],
      has_table |-> TRUE],
     [stiction_boost |-> [ENABLED |-> TRUE, BOOST_MAX |-> 3500],
      has_table |-> TRUE]}

InitStiction ==
    /\ InitPWM
    /\ config \in StictionConfigs
    /\ theta_n = 0
    /\ omega_n = 0
    /\ fuzzified_theta = NoSets
    /\ fuzzified_omega = NoSets
    /\ rule_outputs = <<>>
    /\ u_flc = 0
    /\ u_cmd = 0
    /\ IdleLoop("stiction_harness")
    /\ IdleIMU
    /\ IdleLSM
    /\ IdleMPU
    /\ IdleStiction
    /\ IdleSim

\* make_stiction_booster(flc_cfg), lines 70-133: _passthrough is returned when
\* ENABLED is false (lines 77-82); otherwise line 88 evaluates math.radians,
\* and main.py does not import math (lines 14-24): NameError, nothing returned
make_stiction_booster ==
    /\ pc = "stiction_harness"
    /\ IF ~config.stiction_boost.ENABLED
       THEN booster' = "_passthrough" /\ pc' = "booster_made"
       ELSE booster' = "NameError" /\ pc' = "make_raised"
    /\ UNCHANGED <<pwmVars, flcVars, shutdown, steps, sleep_left,
                   calls_after_flag, imu_failures, imuVars, lsmVars, mpuVars, simVars>>

\* one call stiction(theta_n, omega_n, u_flc, dt) of the returned function
stiction_call ==
    /\ pc \in {"booster_made", "booster_returned"}
    /\ booster = "_passthrough"
    /\ \E th \in NormSamples, om \in NormSamples,
          u \in {-2 * ONE, -ONE, -3000, 0, 3000, ONE, 17000}, dt \in {0, 40} :
          /\ theta_n' = th
          /\ omega_n' = om
          /\ u_flc' = u
          /\ u_cmd' = stiction(th, om, u, dt)
    /\ pc' = "booster_returned"
    /\ UNCHANGED <<pwmVars, config, fuzzified_theta, fuzzified_omega,
                   rule_outputs, shutdown, steps, sleep_left,
                   calls_after_flag, imu_failures, imuVars, lsmVars, mpuVars, simVars,
                   booster>>

NextStiction == make_stiction_booster \/ stiction_call

SpecStiction == InitStiction /\ [][NextStiction]_vars

\* C28: make_stiction_booster returns a function for every configuration;
\* after any sequence of calls its result is in [-1, +1] (its boost within
\* [0, BOOST_MAX]), and with ENABLED false the result is u_flc cut to [-1, +1]
\* whatever theta_n, omega_n and dt are.
C28_BoosterResultInRange ==
    /\ booster # "NameError"
    /\ pc = "booster_returned" =>
          /\ -ONE <= u_cmd /\ u_cmd <= ONE
          /\ ~config.stiction_boost.ENABLED =>
                u_cmd = (IF u_flc > ONE THEN ONE
                         ELSE IF u_flc < -ONE THEN -ONE ELSE u_flc)

\* C29: with ENABLED true make_stiction_booster yields the booster that holds
\* stuck_time_s, boost and latched: boost stays 0 until the stuck condition
\* has held for HOLD_S, the latch is set only then, and a call that is not
\* stuck clears both and lets boost decay.
C29_EnabledBoosterExists ==
    (config.stiction_boost.ENABLED /\ pc # "stiction_harness") =>
        (booster = "apply" /\ pc \in {"booster_made", "booster_returned"})

(* ------------------- simulation/carriage_simulator.py -------------------- *)
\* line 164: cmd = max(-1.0, min(1.0, cmd))
cmd_of(raw) == Max(-ONE, Min(ONE, raw))

\* CarriageSimulator(plant, motor, cfg, controller): no reset() yet
InitSim ==
    /\ InitPWM
    /\ IdleFLC
    /\ IdleLoop("sim_harness")
    /\ IdleIMU
    /\ IdleLSM
    /\ IdleMPU
    /\ IdleStiction
    /\ sim_cfg \in {[steps_per_log |-> n] : n \in 1..3}
    /\ controller \in {"none", "callback"}
    /\ has_perturb = FALSE
    /\ sim_t = 0
    /\ log_decim = 0
    /\ log_t = <<>>
    /\ log_theta = <<>>
    /\ log_omega = <<>>
    /\ log_tau_m = <<>>
    /\ log_tau_g = <<>>
    /\ log_tau_ext = <<>>
    /\ log_cmd = <<>>
    /\ run_left = 0
    /\ sim_k = 0

reset_keeps_tau_ext ==
    /\ pc = "sim_harness"
    /\ run_left = 0
    /\ steps' = <<"reset">>
    /\ sim_t' = 0
    /\ log_t' = <<>>
    /\ log_theta' = <<>>
    /\ log_omega' = <<>>
    /\ log_tau_m' = <<>>
    /\ log_tau_g' = <<>>
    /\ log_cmd' = <<>>
    /\ log_decim' = 0
    /\ has_perturb' = TRUE
    /\ sim_k' = 0
    /\ UNCHANGED <<pwmVars, flcVars, pc, shutdown, sleep_left,
                   calls_after_flag, imu_failures, imuVars, lsmVars, mpuVars,
                   booster, sim_cfg, controller, run_left, log_tau_ext>>

\* reset(theta, omega, t), lines 116-128: the seven lists are cleared,
\* _log_decim = 0 and a Perturbation is installed
reset ==
    /\ pc = "sim_harness"
    /\ run_left = 0
    /\ steps' = <<"reset">>
    /\ sim_t' = 0
    /\ log_t' = <<>>
    /\ log_theta' = <<>>
    /\ log_omega' = <<>>
    /\ log_tau_m' = <<>>
    /\ log_tau_g' = <<>>
    /\ log_tau_ext' = <<>>
    /\ log_cmd' = <<>>
    /\ log_decim' = 0
    /\ has_perturb' = TRUE
    /\ sim_k' = 0
    /\ UNCHANGED <<pwmVars, flcVars, pc, shutdown, sleep_left,
                   calls_after_flag, imu_failures, imuVars, lsmVars, mpuVars,
                   booster, sim_cfg, controller, run_left>>

\* the body of step(), lines 162-190, when nothing raises.  The plant state
\* (theta, omega and the torques) is real-valued and takes no part in the
\* decimation; the entries of the logs other than log_cmd are represented by
\* the time of the step that appended them.
step_completes ==
    /\ has_perturb
    /\ \E raw \in (IF controller = "none" THEN {0} ELSE {-3 * ONE, -2500, 0, 25000}) :
          LET cmd == cmd_of(raw)
              t_new == sim_t + 1
          IN  /\ sim_t' = t_new
              /\ IF log_decim + 1 >= sim_cfg.steps_per_log
                 THEN /\ log_t' = Append(log_t, t_new)
                      /\ log_theta' = Append(log_theta, t_new)
                      /\ log_omega' = Append(log_omega, t_new)
                      /\ log_tau_m' = Append(log_tau_m, t_new)
                      /\ log_tau_g' = Append(log_tau_g, t_new)
                      /\ log_tau_ext' = Append(log_tau_ext, t_new)
                      /\ log_cmd' = Append(log_cmd, cmd)
                      /\ log_decim' = 0
                 ELSE /\ log_decim' = log_decim + 1
                      /\ UNCHANGED <<log_t, log_theta, log_omega, log_tau_m,
                                     log_tau_g, log_tau_ext, log_cmd>>
    /\ sim_k' = sim_k + 1
    /\ UNCHANGED <<sim_cfg, controller, has_perturb>>

\* step() raises before it changes anything: the callback raises (line 163),
\* or self.perturb does not exist because reset() was never called (line 172)
step_raises ==
    /\ ~has_perturb \/ controller = "callback"
    /\ UNCHANGED <<sim_cfg, controller, has_perturb, sim_t, log_decim, log_t,
                   log_theta, log_omega, log_tau_m, log_tau_g, log_tau_ext,
                   log_cmd, sim_k>>

\* a direct call of step()
step ==
    /\ pc = "sim_harness"
    /\ run_left = 0
    /\ sim_k < MaxSimSteps
    /\ \/ step_completes /\ steps' = <<"step", "returned">>
       \/ step_raises /\ steps' = <<"step", "raised">>
    /\ UNCHANGED <<pwmVars, flcVars, pc, shutdown, sleep_left,
                   calls_after_flag, imu_failures, imuVars, lsmVars, mpuVars,
                   booster, run_left>>

\* run(seconds), lines 193-194: steps = int(seconds / self.cfg.dt)
run ==
    /\ pc = "sim_harness"
    /\ run_left = 0
    /\ \E n \in {0, 2, 3} :
          /\ sim_k + n <= MaxSimSteps
          /\ run_left' = n
    /\ steps' = <<"run", "called">>
    /\ UNCHANGED <<pwmVars, flcVars, pc, shutdown, sleep_left,
                   calls_after_flag, imu_failures, imuVars, lsmVars, mpuVars,
                   booster, sim_cfg, controller, has_perturb, sim_t,
                   log_decim, log_t, log_theta, log_omega, log_tau_m,
                   log_tau_g, log_tau_ext, log_cmd, sim_k>>

\* lines 195-196: one iteration of run's loop; an exception ends the run
run_iteration ==
    /\ pc = "sim_harness"
    /\ run_left > 0
    /\ \/ /\ step_completes
          /\ run_left' = run_left - 1
          /\ steps' = <<"run", "returned">>
       \/ /\ step_raises
          /\ run_left' = 0
          /\ steps' = <<"run", "raised">>
    /\ UNCHANGED <<pwmVars, flcVars, pc, shutdown, sleep_left,
                   calls_after_flag, imu_failures, imuVars, lsmVars, mpuVars,
                   booster>>

NextSim ==
    \/ reset
    \/ step
    \/ run
    \/ run_iteration

SpecSim == InitSim /\ [][NextSim]_vars

AllLogs ==
    <<log_t, log_theta, log_omega, log_tau_m, log_tau_g, log_tau_ext, log_cmd>>

\* C30: after any sequence of reset(), step() and run() the seven log lists
\* have the same length, floor(k / steps_per_log) for the k steps completed
\* since the last reset, and every logged cmd is in [-1, +1].
C30_LogsAligned ==
    /\ \A i \in 1..7 : Len(AllLogs[i]) = sim_k \div sim_cfg.steps_per_log
    /\ \A j \in 1..Len(log_cmd) : -ONE <= log_cmd[j] /\ log_cmd[j] <= ONE

\* three steps after a reset with steps_per_log = 2: one entry in each list,
\* and the command the callback returned as 2.5 is logged as 1.0
C30_Witness ==
    /\ has_perturb
    /\ sim_cfg.steps_per_log = 2
    /\ sim_k = 3
    /\ log_decim = 1
    /\ \A i \in 1..7 : Len(AllLogs[i]) = 1
    /\ log_cmd[1] = ONE

============================================================================
